---- MODULE Spec2Model ----
(***************************************************************************)
(* The repository metadata store of gitmap (src-tauri/src): the on-disk    *)
(* cache document, its load / migrate / save cycle, the store operations   *)
(* of DataStore, the rescan operations of GitScanner and the recency cache *)
(* of the store.                                                           *)
(*                                                                         *)
(* Conventions.  An Option<T> is a sequence of length <= 1: <<>> is None   *)
(* and <<x>> is Some(x).  The same shape is used for "this JSON field is   *)
(* present": <<>> is an absent (or null) field.  A Result<T, String> is    *)
(* likewise <<>> for Err and <<x>> for Ok(x).  A HashMap is a function     *)
(* whose DOMAIN is the key set.  A path is the sequence of its characters. *)
(***************************************************************************)
EXTENDS Integers, Sequences, FiniteSets, TLC

VARIABLES
    file,       \* the cache file: <<>> when it does not exist, else <<json>>
    clock,      \* what Utc::now() returns
    path_trie,  \* DataStore.path_trie of the long-lived store
    lru_cache,  \* DataStore.lru_cache of that store, most recently used first
    repo_index, \* DataStore.repo_index of that store
    th,         \* the commands running concurrently: position and loaded cache
    last        \* the last operation: name, argument, result, document before

vars == <<file, clock, path_trie, lru_cache, repo_index, th, last>>

----------------------------------------------------------------------------
(* Bounds *)

\* Utc::now() ranges over 0..MaxClock
MaxClock == 2

\* the repositories of the file system
Paths == { <<"/", "u", "/", "p">>, <<"/", "u", "/", "p", "q">> }

\* the directories a scan can be started on
Roots == { <<"/", "u">>, <<"/", "u", "/", "p">> }

\* the collection ids Uuid::new_v4 draws from, names and colors a caller gives
CollIds == {"c1", "c2"}
CollNames == {"work"}
Colors == {"", "#ff0000"}

Threads == {1, 2}

Times == 0..MaxClock

----------------------------------------------------------------------------
(* Options, maps, sequences *)

None == <<>>
Some(x) == <<x>>
IsSome(o) == o # <<>>

Opt(S) == {None} \cup {Some(x) : x \in S}

EmptyMap == <<>>
Put(m, k, v) == [x \in (DOMAIN m) \cup {k} |-> IF x = k THEN v ELSE m[x]]
Del(m, k) == [x \in (DOMAIN m) \ {k} |-> m[x]]
Values(m) == {m[k] : k \in DOMAIN m}

Contains(s, x) == \E i \in 1..Len(s) : s[i] = x
Retain(s, Keep(_)) == SelectSeq(s, Keep)

\* one statement after another: the value of the first, computed once, is
\* handed to the rest
Then(v, Rest(_)) == CHOOSE out \in {Rest(x) : x \in {v}} : TRUE

\* str::starts_with on the characters
StartsWith(s, prefix) ==
    /\ Len(prefix) <= Len(s)
    /\ \A i \in 1..Len(prefix) : s[i] = prefix[i]

\* path.split('/').filter(|s| !s.is_empty()): the positions of the separators
\* decide the components; two paths have the same components up to a point
\* exactly when one is the other followed by "/" and more (or they are equal)
IsUnder(p, root) ==
    /\ StartsWith(p, root)
    /\ \/ Len(p) = Len(root)
       \/ p[Len(root) + 1] = "/"

\* Path::file_name: the characters after the last separator
RECURSIVE file_name(_)
file_name(p) ==
    IF p = <<>> \/ p[Len(p)] = "/" THEN <<>>
    ELSE Append(file_name(SubSeq(p, 1, Len(p) - 1)), p[Len(p)])

----------------------------------------------------------------------------
(* repo_types.rs and the document *)

DefaultColor == "#e5e7eb"
CurrentVersion == "1.4"

\* RepositoryCache::default()
RepositoryCacheDefault(now) ==
    [ repositories |-> EmptyMap,
      scan_paths |-> EmptyMap,
      collections |-> EmptyMap,
      last_updated |-> now,
      cache_version |-> CurrentVersion ]

----------------------------------------------------------------------------
(* serde: the JSON text of a document.  A JSON object is a record whose    *)
(* fields say whether the key is present.  Serialising writes every field  *)
(* of the struct; deserialising a struct needs every field that is not an  *)
(* Option, ignores keys the struct does not have, and reads an absent or   *)
(* null Option as None.                                                    *)

\* Serialize for GitRepository
RepoToJson(r) ==
    [ name |-> Some(r.name), path |-> Some(r.path), size_mb |-> Some(r.size_mb),
      file_types |-> Some(r.file_types), last_commit_date |-> r.last_commit_date,
      current_branch |-> r.current_branch, branches |-> Some(r.branches),
      remote_url |-> r.remote_url, commit_count |-> Some(r.commit_count),
      last_analyzed |-> Some(r.last_analyzed), is_valid |-> Some(r.is_valid),
      is_pinned |-> Some(r.is_pinned), pinned_at |-> r.pinned_at,
      node_modules_info |-> r.node_modules_info ]

\* Serialize for Collection
CollToJson(c) ==
    [ id |-> Some(c.id), name |-> Some(c.name), color |-> Some(c.color),
      repository_paths |-> Some(c.repository_paths), created_at |-> Some(c.created_at) ]

\* serde_json::to_string_pretty(cache)
ToJson(cache) ==
    [ repositories |-> Some([p \in DOMAIN cache.repositories |->
                                RepoToJson(cache.repositories[p])]),
      scan_paths |-> Some(cache.scan_paths),
      collections |-> Some([c \in DOMAIN cache.collections |->
                                CollToJson(cache.collections[c])]),
      last_updated |-> Some(cache.last_updated),
      cache_version |-> Some(cache.cache_version) ]

\* the fields OldGitRepository needs
OldRepoParses(j) ==
    /\ IsSome(j.name) /\ IsSome(j.path) /\ IsSome(j.size_mb) /\ IsSome(j.file_types)
    /\ IsSome(j.branches) /\ IsSome(j.commit_count) /\ IsSome(j.last_analyzed)
    /\ IsSome(j.is_valid)

\* the fields GitRepository needs
RepoParses(j) == OldRepoParses(j) /\ IsSome(j.is_pinned)

CollParses(j) ==
    /\ IsSome(j.id) /\ IsSome(j.name) /\ IsSome(j.color)
    /\ IsSome(j.repository_paths) /\ IsSome(j.created_at)

\* Deserialize for OldGitRepository: the eleven fields it has
OldRepoFromJson(j) ==
    [ name |-> j.name[1], path |-> j.path[1], size_mb |-> j.size_mb[1],
      file_types |-> j.file_types[1], last_commit_date |-> j.last_commit_date,
      current_branch |-> j.current_branch, branches |-> j.branches[1],
      remote_url |-> j.remote_url, commit_count |-> j.commit_count[1],
      last_analyzed |-> j.last_analyzed[1], is_valid |-> j.is_valid[1] ]

\* Deserialize for GitRepository
RepoFromJson(j) ==
    [ name |-> j.name[1], path |-> j.path[1], size_mb |-> j.size_mb[1],
      file_types |-> j.file_types[1], last_commit_date |-> j.last_commit_date,
      current_branch |-> j.current_branch, branches |-> j.branches[1],
      remote_url |-> j.remote_url, commit_count |-> j.commit_count[1],
      last_analyzed |-> j.last_analyzed[1], is_valid |-> j.is_valid[1],
      is_pinned |-> j.is_pinned[1], pinned_at |-> j.pinned_at,
      node_modules_info |-> j.node_modules_info ]

\* Deserialize for Collection
CollFromJson(j) ==
    [ id |-> j.id[1], name |-> j.name[1], color |-> j.color[1],
      repository_paths |-> j.repository_paths[1], created_at |-> j.created_at[1] ]

\* serde_json::from_str::<RepositoryCache>(&content)
FromJson(j) ==
    IF /\ IsSome(j.repositories) /\ IsSome(j.scan_paths) /\ IsSome(j.collections)
       /\ IsSome(j.last_updated) /\ IsSome(j.cache_version)
       /\ \A p \in DOMAIN j.repositories[1] : RepoParses(j.repositories[1][p])
       /\ \A c \in DOMAIN j.collections[1] : CollParses(j.collections[1][c])
    THEN Some([ repositories |-> [p \in DOMAIN j.repositories[1] |->
                                     RepoFromJson(j.repositories[1][p])],
                scan_paths |-> j.scan_paths[1],
                collections |-> [c \in DOMAIN j.collections[1] |->
                                     CollFromJson(j.collections[1][c])],
                last_updated |-> j.last_updated[1],
                cache_version |-> j.cache_version[1] ])
    ELSE None

\* serde_json::from_str::<OldRepositoryCache>(content)
OldFromJson(j) ==
    IF /\ IsSome(j.repositories) /\ IsSome(j.scan_paths)
       /\ IsSome(j.last_updated) /\ IsSome(j.cache_version)
       /\ \A p \in DOMAIN j.repositories[1] : OldRepoParses(j.repositories[1][p])
    THEN Some([ repositories |-> [p \in DOMAIN j.repositories[1] |->
                                     OldRepoFromJson(j.repositories[1][p])],
                scan_paths |-> j.scan_paths[1],
                last_updated |-> j.last_updated[1],
                cache_version |-> j.cache_version[1] ])
    ELSE None

----------------------------------------------------------------------------
(* data_store.rs: load, migrate, save.  An operation of the store is an    *)
(* operator from the file (and its arguments and the time) to              *)
(* [file, ok, ret]: the file afterwards, whether it returned Ok, and what. *)

\* DataStore::save_cache: fs::write of the serialised document
save_cache(cache) == Some(ToJson(cache))

\* DataStore::migrate_cache_format; the result is [res, file]
migrate_cache_format(f, content) ==
    LET old == OldFromJson(content) IN
    IF old = None THEN [res |-> None, file |-> f]
    ELSE LET old_cache == old[1]
             new_repositories ==
                 [path \in DOMAIN old_cache.repositories |->
                    LET old_repo == old_cache.repositories[path] IN
                    [ name |-> old_repo.name, path |-> old_repo.path,
                      size_mb |-> old_repo.size_mb, file_types |-> old_repo.file_types,
                      last_commit_date |-> old_repo.last_commit_date,
                      current_branch |-> old_repo.current_branch,
                      branches |-> old_repo.branches, remote_url |-> old_repo.remote_url,
                      commit_count |-> old_repo.commit_count,
                      last_analyzed |-> old_repo.last_analyzed,
                      is_valid |-> old_repo.is_valid,
                      is_pinned |-> FALSE, pinned_at |-> None,
                      node_modules_info |-> None ]]
             migrated_cache ==
                 [ repositories |-> new_repositories,
                   scan_paths |-> old_cache.scan_paths,
                   collections |-> EmptyMap,
                   last_updated |-> old_cache.last_updated,
                   cache_version |-> CurrentVersion ]
         IN [res |-> Some(migrated_cache), file |-> save_cache(migrated_cache)]

\* DataStore::load_cache; the result is [res, file]: the cache returned (None
\* for Err) and the file afterwards (load_cache may write it back)
load_cache(f, now) ==
    IF f = None THEN [res |-> Some(RepositoryCacheDefault(now)), file |-> f]
    ELSE LET content == f[1] IN
         Then(FromJson(content), LAMBDA parsed :
         IF parsed # None
         THEN LET cache == parsed[1]
                  needs_update == \E c \in DOMAIN cache.collections :
                                      cache.collections[c].color = ""
                  fixed == [cache EXCEPT
                              !.collections = [c \in DOMAIN cache.collections |->
                                  IF cache.collections[c].color = ""
                                  THEN [cache.collections[c] EXCEPT !.color = DefaultColor]
                                  ELSE cache.collections[c]],
                              !.last_updated = now]
              IN IF needs_update
                 THEN [res |-> Some(fixed), file |-> save_cache(fixed)]
                 ELSE [res |-> Some(cache), file |-> f]
         ELSE migrate_cache_format(f, content))

\* what an operation returns: the file afterwards, Ok or Err, the value
Result(f, ok, ret) == [file |-> f, ok |-> ok, ret |-> ret]

\* DataStore::add_repository
add_repository(f, repo, now) ==
    Then(load_cache(f, now), LAMBDA l :
    IF l.res = None THEN Result(l.file, FALSE, None)
    ELSE LET cache == [l.res[1] EXCEPT
                         !.repositories = Put(@, repo.path, repo),
                         !.last_updated = now]
         IN Result(save_cache(cache), TRUE, None))

\* DataStore::clear_cache
clear_cache(f, now) == Result(save_cache(RepositoryCacheDefault(now)), TRUE, None)

\* validate_repositories that also saves the cache it loaded
validate_mut_saves(f, has_git, now) ==
    Then(load_cache(f, now), LAMBDA l :
    IF l.res = None THEN Result(l.file, FALSE, None)
    ELSE LET cache == l.res[1]
             valid == {p \in DOMAIN cache.repositories : p \in has_git}
         IN Result(save_cache([cache EXCEPT !.last_updated = now + 1]), TRUE,
                   << [p \in valid |-> [cache.repositories[p] EXCEPT !.is_valid = TRUE]],
                      (DOMAIN cache.repositories) \ valid >>))

\* DataStore::validate_repositories; has_git is the set of paths whose .git
\* exists.  ret is <<valid_repos, invalid_paths>>, here a map and a set
validate_repositories(f, has_git, now) ==
    Then(load_cache(f, now), LAMBDA l :
    IF l.res = None THEN Result(l.file, FALSE, None)
    ELSE LET cache == l.res[1]
             valid == {p \in DOMAIN cache.repositories : p \in has_git}
         IN Result(l.file, TRUE,
                   << [p \in valid |-> [cache.repositories[p] EXCEPT !.is_valid = TRUE]],
                      (DOMAIN cache.repositories) \ valid >>))

\* cleanup_invalid_repositories that returns how many records it kept
cleanup_mut_counts_kept(f, has_git, now) ==
    LET v == validate_repositories(f, has_git, now) IN
    IF ~v.ok THEN Result(v.file, FALSE, None)
    ELSE LET valid_repos == v.ret[1]
             removed_count == Cardinality(v.ret[2])
             cache == [RepositoryCacheDefault(now) EXCEPT !.repositories = valid_repos]
         IN IF removed_count > 0
            THEN Result(save_cache(cache), TRUE, Some(Cardinality(DOMAIN valid_repos)))
            ELSE Result(v.file, TRUE, Some(removed_count))

\* DataStore::cleanup_invalid_repositories
cleanup_invalid_repositories(f, has_git, now) ==
    LET v == validate_repositories(f, has_git, now) IN
    IF ~v.ok THEN Result(v.file, FALSE, None)
    ELSE LET valid_repos == v.ret[1]
             removed_count == Cardinality(v.ret[2])
             cache == [RepositoryCacheDefault(now) EXCEPT !.repositories = valid_repos]
         IN IF removed_count > 0
            THEN Result(save_cache(cache), TRUE, Some(removed_count))
            ELSE Result(v.file, TRUE, Some(removed_count))

\* the count both scan-path operations take: repo.path.starts_with(path)
CountUnder(cache, path) ==
    Cardinality({p \in DOMAIN cache.repositories :
                    StartsWith(cache.repositories[p].path, path)})

\* DataStore::add_scan_path
add_scan_path(f, path, now) ==
    Then(load_cache(f, now), LAMBDA l :
    IF l.res = None THEN Result(l.file, FALSE, None)
    ELSE LET cache == l.res[1]
             scan_path == [ path |-> path, last_scanned |-> Some(now),
                            repository_count |-> CountUnder(cache, path) ]
         IN Result(save_cache([cache EXCEPT !.scan_paths = Put(@, path, scan_path),
                                            !.last_updated = now]), TRUE, None))

\* DataStore::remove_scan_path
remove_scan_path(f, path, now) ==
    Then(load_cache(f, now), LAMBDA l :
    IF l.res = None THEN Result(l.file, FALSE, None)
    ELSE Result(save_cache([l.res[1] EXCEPT !.scan_paths = Del(@, path),
                                            !.last_updated = now]), TRUE, None))

\* DataStore::update_scan_path_last_scanned
update_scan_path_last_scanned(f, path, now) ==
    Then(load_cache(f, now), LAMBDA l :
    IF l.res = None THEN Result(l.file, FALSE, None)
    ELSE LET cache == l.res[1]
             touched == IF path \in DOMAIN cache.scan_paths
                        THEN [cache EXCEPT !.scan_paths[path] =
                                 [@ EXCEPT !.last_scanned = Some(now),
                                           !.repository_count = CountUnder(cache, path)]]
                        ELSE cache
         IN Result(save_cache([touched EXCEPT !.last_updated = now]), TRUE, None))

\* toggle_mut that leaves pinned_at as it was when it unpins
toggle_mut_keeps_pinned_at(cache, repo_path, now) ==
    IF repo_path \in DOMAIN cache.repositories
    THEN LET repo == cache.repositories[repo_path]
             updated_repo == [repo EXCEPT
                                !.is_pinned = ~repo.is_pinned,
                                !.pinned_at = IF ~repo.is_pinned THEN Some(now) ELSE @]
         IN [ ok |-> TRUE,
              cache |-> [cache EXCEPT !.repositories[repo_path] = updated_repo,
                                      !.last_updated = now],
              ret |-> Some(updated_repo) ]
    ELSE [ok |-> FALSE, cache |-> cache, ret |-> None]

\* toggle_mut that pins instead of flipping
toggle_mut_always_pins(cache, repo_path, now) ==
    IF repo_path \in DOMAIN cache.repositories
    THEN LET updated_repo == [cache.repositories[repo_path] EXCEPT
                                !.is_pinned = TRUE, !.pinned_at = Some(now)]
         IN [ ok |-> TRUE,
              cache |-> [cache EXCEPT !.repositories[repo_path] = updated_repo,
                                      !.last_updated = now],
              ret |-> Some(updated_repo) ]
    ELSE [ok |-> FALSE, cache |-> cache, ret |-> None]

\* the mutation of toggle_repository_pin on a loaded cache: [ok, cache, ret]
toggle_mut(cache, repo_path, now) ==
    IF repo_path \in DOMAIN cache.repositories
    THEN LET repo == cache.repositories[repo_path]
             updated_repo == [repo EXCEPT
                                !.is_pinned = ~repo.is_pinned,
                                !.pinned_at = IF ~repo.is_pinned THEN Some(now) ELSE None]
         IN [ ok |-> TRUE,
              cache |-> [cache EXCEPT !.repositories[repo_path] = updated_repo,
                                      !.last_updated = now],
              ret |-> Some(updated_repo) ]
    ELSE [ok |-> FALSE, cache |-> cache, ret |-> None]

\* a store operation from its mutation: load_cache, then save_cache when the
\* mutation returned Ok (the early returns of the operations come before the save)
Commit(l, m) ==
    IF m.ok THEN Result(save_cache(m.cache), TRUE, m.ret) ELSE Result(l.file, FALSE, None)

\* DataStore::toggle_repository_pin
toggle_repository_pin(f, repo_path, now) ==
    Then(load_cache(f, now), LAMBDA l :
    IF l.res = None THEN Result(l.file, FALSE, None)
    ELSE Commit(l, toggle_mut(l.res[1], repo_path, now)))

\* DataStore::create_collection; collection_id is what Uuid::new_v4 gives
create_collection(f, collection_id, name, color, now) ==
    Then(load_cache(f, now), LAMBDA l :
    IF l.res = None THEN Result(l.file, FALSE, None)
    ELSE LET cache == l.res[1] IN
         IF \E c \in DOMAIN cache.collections : cache.collections[c].name = name
         THEN Result(l.file, FALSE, None)
         ELSE LET collection == [ id |-> collection_id, name |-> name, color |-> color,
                                  repository_paths |-> <<>>, created_at |-> now ]
              IN Result(save_cache([cache EXCEPT
                                      !.collections = Put(@, collection_id, collection),
                                      !.last_updated = now]),
                        TRUE, Some(collection)))

\* add_to_collection_mut without the check that the repository exists
add_to_collection_mut_unchecked(cache, collection_id, repo_path, now) ==
    IF collection_id \in DOMAIN cache.collections
    THEN LET paths == cache.collections[collection_id].repository_paths
             pushed == IF Contains(paths, repo_path) THEN paths
                       ELSE Append(paths, repo_path)
         IN [ ok |-> TRUE,
              cache |-> [cache EXCEPT
                           !.collections[collection_id].repository_paths = pushed,
                           !.last_updated = now],
              ret |-> None ]
    ELSE [ok |-> FALSE, cache |-> cache, ret |-> None]

\* add_to_collection_mut that pushes the path whether or not it is a member
add_to_collection_mut_pushes(cache, collection_id, repo_path, now) ==
    IF repo_path \notin DOMAIN cache.repositories
    THEN [ok |-> FALSE, cache |-> cache, ret |-> None]
    ELSE IF collection_id \in DOMAIN cache.collections
    THEN [ ok |-> TRUE,
           cache |-> [cache EXCEPT
                        !.collections[collection_id].repository_paths =
                            Append(@, repo_path),
                        !.last_updated = now],
           ret |-> None ]
    ELSE [ok |-> FALSE, cache |-> cache, ret |-> None]

\* the mutation of add_repository_to_collection: [ok, cache, ret]
add_to_collection_mut(cache, collection_id, repo_path, now) ==
    IF repo_path \notin DOMAIN cache.repositories
    THEN [ok |-> FALSE, cache |-> cache, ret |-> None]
    ELSE IF collection_id \in DOMAIN cache.collections
    THEN LET paths == cache.collections[collection_id].repository_paths
             pushed == IF Contains(paths, repo_path) THEN paths
                       ELSE Append(paths, repo_path)
         IN [ ok |-> TRUE,
              cache |-> [cache EXCEPT
                           !.collections[collection_id].repository_paths = pushed,
                           !.last_updated = now],
              ret |-> None ]
    ELSE [ok |-> FALSE, cache |-> cache, ret |-> None]

\* DataStore::add_repository_to_collection
add_repository_to_collection(f, collection_id, repo_path, now) ==
    Then(load_cache(f, now), LAMBDA l :
    IF l.res = None THEN Result(l.file, FALSE, None)
    ELSE Commit(l, add_to_collection_mut(l.res[1], collection_id, repo_path, now)))

\* DataStore::remove_repository_from_collection
remove_repository_from_collection(f, collection_id, repo_path, now) ==
    Then(load_cache(f, now), LAMBDA l :
    IF l.res = None THEN Result(l.file, FALSE, None)
    ELSE LET cache == l.res[1] IN
         IF collection_id \in DOMAIN cache.collections
         THEN LET Keep(path) == path # repo_path IN
              Result(save_cache([cache EXCEPT
                        !.collections[collection_id].repository_paths = Retain(@, Keep),
                        !.last_updated = now]), TRUE, None)
         ELSE Result(l.file, FALSE, None))

\* delete_collection that returns Ok for an id the document does not have
delete_collection_lenient(f, collection_id, now) ==
    Then(load_cache(f, now), LAMBDA l :
    IF l.res = None THEN Result(l.file, FALSE, None)
    ELSE LET cache == l.res[1] IN
         Result(save_cache([cache EXCEPT
                              !.collections = Del(@, collection_id),
                              !.last_updated = now]), TRUE, None))

\* DataStore::delete_collection
delete_collection(f, collection_id, now) ==
    Then(load_cache(f, now), LAMBDA l :
    IF l.res = None THEN Result(l.file, FALSE, None)
    ELSE LET cache == l.res[1] IN
         IF collection_id \notin DOMAIN cache.collections
         THEN Result(l.file, FALSE, None)
         ELSE Result(save_cache([cache EXCEPT !.collections = Del(@, collection_id),
                                              !.last_updated = now]), TRUE, None))

\* filter_map(|path| cache.repositories.get(path)) over a list of paths
RECURSIVE FilterMapGet(_, _)
FilterMapGet(paths, repositories) ==
    IF paths = <<>> THEN <<>>
    ELSE IF Head(paths) \in DOMAIN repositories
         THEN <<repositories[Head(paths)]>> \o FilterMapGet(Tail(paths), repositories)
         ELSE FilterMapGet(Tail(paths), repositories)

\* DataStore::get_repositories_in_collection
get_repositories_in_collection(f, collection_id, now) ==
    Then(load_cache(f, now), LAMBDA l :
    IF l.res = None THEN Result(l.file, FALSE, None)
    ELSE LET cache == l.res[1] IN
         IF collection_id \in DOMAIN cache.collections
         THEN Result(l.file, TRUE,
                     FilterMapGet(cache.collections[collection_id].repository_paths,
                                  cache.repositories))
         ELSE Result(l.file, FALSE, None))

----------------------------------------------------------------------------
(* git_scanner.rs.  What an operation sees of the file system is its input *)
(* fsv, a function from the paths to observations                          *)
(*   [git, opens, variant, pkg, nm]:                                       *)
(* git: the directory and its .git exist; opens: Repository::open and the  *)
(* rest of the analysis succeed; variant: which working tree is there;     *)
(* pkg: the modification time of package.json, None without one; nm: the   *)
(* number of node_modules directories.                                     *)

\* the working trees an analysis can find: what get_directory_size,
\* get_file_types and get_git_info return
Tree(variant) ==
    IF variant = 1
    THEN [ size_mb |-> 10, file_types |-> [rs |-> 3], commit_count |-> 10,
           last_commit_date |-> Some(0), current_branch |-> Some("main"),
           branches |-> <<"main">>, remote_url |-> None ]
    ELSE [ size_mb |-> 150, file_types |-> [rs |-> 3, js |-> 1], commit_count |-> 120,
           last_commit_date |-> Some(0), current_branch |-> Some("dev"),
           branches |-> <<"main", "dev">>, remote_url |-> Some("origin") ]

\* GitScanner::should_scan_node_modules
should_scan_node_modules(obs, existing_repo) ==
    IF obs.pkg = None THEN FALSE
    ELSE IF existing_repo # None /\ existing_repo[1].node_modules_info # None
         THEN obs.pkg[1] > existing_repo[1].node_modules_info[1].package_json_modified
         ELSE TRUE

\* GitScanner::scan_node_modules
scan_node_modules(repo_path, obs, now) ==
    IF obs.pkg = None THEN None
    ELSE IF obs.nm > 0
         THEN Some([ total_size_mb |-> 5 * obs.nm, count |-> obs.nm,
                     paths |-> <<repo_path \o <<"/", "n", "m">> >>,
                     last_scanned |-> now, package_json_modified |-> obs.pkg[1] ])
         ELSE None

\* the record both analyses build, from the tree and the node_modules summary
Analyzed(repo_path, obs, node_modules_info, now) ==
    LET t == Tree(obs.variant) IN
    [ name |-> file_name(repo_path), path |-> repo_path, size_mb |-> t.size_mb,
      file_types |-> t.file_types, last_commit_date |-> t.last_commit_date,
      current_branch |-> t.current_branch, branches |-> t.branches,
      remote_url |-> t.remote_url, commit_count |-> t.commit_count,
      last_analyzed |-> now, is_valid |-> TRUE,
      is_pinned |-> FALSE, pinned_at |-> None,
      node_modules_info |-> node_modules_info ]

\* GitScanner::analyze_repository_with_cache: Some(record), or None for Err
analyze_repository_with_cache(repo_path, existing_repo, obs, now) ==
    IF ~obs.opens THEN None
    ELSE Some(Analyzed(repo_path, obs,
                 IF should_scan_node_modules(obs, existing_repo)
                 THEN scan_node_modules(repo_path, obs, now)
                 ELSE IF existing_repo = None THEN None
                      ELSE existing_repo[1].node_modules_info,
                 now))

\* GitScanner::analyze_repository
analyze_repository(repo_path, obs, now) ==
    analyze_repository_with_cache(repo_path, None, obs, now)

\* GitScanner::analyze_repository_with_cache_force_node_modules
analyze_repository_with_cache_force_node_modules(repo_path, existing_repo, obs, now) ==
    IF ~obs.opens THEN None
    ELSE Some(Analyzed(repo_path, obs, scan_node_modules(repo_path, obs, now), now))

\* PreservePin without the copy: the analysed record is stored as analysed
PreservePinDropped(new_repo, existing_cache) == new_repo

\* "Preserve pin state from existing repository": the merge every rescan applies
\* to a freshly analysed record, against the cache it loaded before the scan
PreservePin(new_repo, existing_cache) ==
    IF new_repo.path \in DOMAIN existing_cache.repositories
    THEN [new_repo EXCEPT
            !.is_pinned = existing_cache.repositories[new_repo.path].is_pinned,
            !.pinned_at = existing_cache.repositories[new_repo.path].pinned_at]
    ELSE new_repo

\* a set as a list, in some order (the order of a directory walk or a HashMap)
RECURSIVE SetToSeq(_)
SetToSeq(S) ==
    IF S = {} THEN <<>>
    ELSE LET x == CHOOSE y \in S : TRUE IN <<x>> \o SetToSeq(S \ {x})

\* a loop of add_repository calls; stop_on_err is the `?` of scan_disk_with_cache,
\* the other loops log the error and go on.  [file, ok]
RECURSIVE AddEach(_, _, _, _)
AddEach(f, repos, stop_on_err, now) ==
    IF repos = <<>> THEN [file |-> f, ok |-> TRUE]
    ELSE Then(add_repository(f, Head(repos), now),
              LAMBDA r : IF ~r.ok /\ stop_on_err THEN [file |-> r.file, ok |-> FALSE]
                         ELSE AddEach(r.file, Tail(repos), stop_on_err, now))

\* GitScanner::scan_directory: the repositories analysed under root_path
scan_directory(root_path, fsv, now) ==
    LET found == {p \in DOMAIN fsv :
                     /\ IsUnder(p, root_path) /\ fsv[p].git
                     /\ analyze_repository(p, fsv[p], now) # None}
    IN [p \in found |-> analyze_repository(p, fsv[p], now)[1]]

\* load_cache().unwrap_or_default()
UnwrapOrDefault(l, now) == IF l.res = None THEN RepositoryCacheDefault(now) ELSE l.res[1]

\* GitScanner::load_cached_repositories: ret is the set of records
load_cached_repositories(f, now) ==
    Then(load_cache(f, now), LAMBDA l :
    IF l.res = None THEN Result(l.file, FALSE, None)
    ELSE Result(l.file, TRUE, Some(Values(l.res[1].repositories))))

\* GitScanner::analyze_discovered_repositories
analyze_discovered_repositories(f, repo_paths, fsv, now) ==
    Then(load_cache(f, now), LAMBDA l :
    LET existing_cache == UnwrapOrDefault(l, now)
        analysed == {p \in repo_paths : analyze_repository(p, fsv[p], now) # None}
        merged == [p \in analysed |->
                      PreservePin(analyze_repository(p, fsv[p], now)[1], existing_cache)]
        saved == AddEach(l.file, [i \in 1..Cardinality(analysed) |->
                                     merged[SetToSeq(analysed)[i]]], FALSE, now)
    IN Result(saved.file, TRUE, Some(Values(merged))))

\* the directories scan_disk walks: the home directory and the fixed ones
DiskRoots == { <<"/", "u">> }

\* GitScanner::scan_disk_with_cache
scan_disk_with_cache(f, force_rescan, fsv, now) ==
    Then(load_cached_repositories(f, now), LAMBDA cached :
    IF ~force_rescan /\ cached.ok /\ cached.ret[1] # {}
    THEN cached
    ELSE Then(load_cache(IF force_rescan THEN f ELSE cached.file, now), LAMBDA l :
         LET existing_cache == UnwrapOrDefault(l, now)
             found == UNION {DOMAIN scan_directory(root, fsv, now) : root \in DiskRoots}
             merged == [p \in found |->
                          PreservePin(analyze_repository(p, fsv[p], now)[1], existing_cache)]
         IN Then(AddEach(l.file, [i \in 1..Cardinality(found) |->
                                     merged[SetToSeq(found)[i]]], TRUE, now),
                 LAMBDA saved : IF ~saved.ok THEN Result(saved.file, FALSE, None)
                                ELSE load_cached_repositories(saved.file, now))))

\* the loop of update_scan_path_last_scanned over the custom paths
RECURSIVE TouchEach(_, _, _)
TouchEach(f, paths, now) ==
    IF paths = <<>> THEN f
    ELSE Then(update_scan_path_last_scanned(f, Head(paths), now),
              LAMBDA r : TouchEach(r.file, Tail(paths), now))

\* GitScanner::scan_custom_paths
scan_custom_paths(f, custom_paths, fsv, now) ==
    Then(load_cache(f, now), LAMBDA l :
    Then(TouchEach(l.file, SetToSeq(custom_paths), now), LAMBDA touched :
    LET existing_cache == UnwrapOrDefault(l, now)
        found == UNION {DOMAIN scan_directory(root, fsv, now) : root \in custom_paths}
        merged == [p \in found |->
                     PreservePin(analyze_repository(p, fsv[p], now)[1], existing_cache)]
    IN Then(AddEach(touched, [i \in 1..Cardinality(found) |->
                                 merged[SetToSeq(found)[i]]], FALSE, now),
            LAMBDA saved : load_cached_repositories(saved.file, now))))

\* GitScanner::refresh_repository
refresh_repository(f, repo_path, fsv, now) ==
    Then(load_cache(f, now), LAMBDA l :
    IF l.res = None THEN Result(l.file, FALSE, None)
    ELSE LET cache == l.res[1]
             existing_repo == IF repo_path \in DOMAIN cache.repositories
                              THEN Some(cache.repositories[repo_path]) ELSE None
             analysed == analyze_repository_with_cache_force_node_modules(
                             repo_path, existing_repo, fsv[repo_path], now)
         IN IF analysed = None THEN Result(l.file, FALSE, None)
            ELSE LET updated_repo == PreservePin(analysed[1], cache)
                     r == add_repository(l.file, updated_repo, now)
                 IN Result(r.file, r.ok, IF r.ok THEN Some(updated_repo) ELSE None))

\* the mutation of refresh_cache on a loaded cache: [ok, cache, ret]
refresh_cache_mut(cache, fsv, now) ==
    LET exists == {p \in DOMAIN cache.repositories : fsv[p].git}
        Re(p) == analyze_repository_with_cache(p, Some(cache.repositories[p]), fsv[p], now)
        updated == [p \in exists |->
                      IF Re(p) # None THEN PreservePin(Re(p)[1], cache)
                      ELSE cache.repositories[p]]
    IN [ ok |-> TRUE,
         cache |-> [cache EXCEPT !.repositories = updated, !.last_updated = now],
         ret |-> Some(Values(updated)) ]

\* GitScanner::refresh_cache
refresh_cache(f, fsv, now) ==
    Then(load_cache(f, now), LAMBDA l :
    IF l.res = None THEN Result(l.file, FALSE, None)
    ELSE Commit(l, refresh_cache_mut(l.res[1], fsv, now)))

\* remove_mut that also takes the path out of every collection
remove_mut_cascades(cache, repo_path, now) ==
    LET Keep(path) == path # repo_path IN
    [ ok |-> TRUE,
      cache |-> [cache EXCEPT
                   !.repositories = Del(@, repo_path),
                   !.collections = [c \in DOMAIN @ |->
                       [@[c] EXCEPT !.repository_paths = Retain(@, Keep)]],
                   !.last_updated = now],
      ret |-> None ]

\* the mutation of remove_repository_from_cache: [ok, cache, ret]
remove_mut(cache, repo_path, now) ==
    [ ok |-> TRUE,
      cache |-> [cache EXCEPT !.repositories = Del(@, repo_path), !.last_updated = now],
      ret |-> None ]

\* GitScanner::remove_repository_from_cache
remove_repository_from_cache(f, repo_path, now) ==
    Then(load_cache(f, now), LAMBDA l :
    IF l.res = None THEN Result(l.file, FALSE, None)
    ELSE Commit(l, remove_mut(l.res[1], repo_path, now)))

----------------------------------------------------------------------------
(* optimizations.rs *)

\* path.split('/').filter(|s| !s.is_empty()).collect()
RECURSIVE Components(_)
Components(path) ==
    IF path = <<>> THEN <<>>
    ELSE LET rest == Components(SubSeq(path, 1, Len(path) - 1))
             c == path[Len(path)]
             ends_in_sep == Len(path) = 1 \/ path[Len(path) - 1] = "/"
         IN IF c = "/" THEN rest
            ELSE IF ends_in_sep THEN Append(rest, <<c>>)
            ELSE [rest EXCEPT ![Len(rest)] = Append(@, c)]

\* PathTrie::new: the trie is a map from a node, named by the components that
\* lead to it, to the node's `repositories`; its DOMAIN is the nodes that exist
PathTrieNew == [n \in {<<>>} |-> <<>>]

Prefixes(components) == {SubSeq(components, 1, k) : k \in 0..Len(components)}

\* PathTrie::insert_repository
TrieInsert(trie, path) ==
    LET components == Components(path)
        nodes == (DOMAIN trie) \cup Prefixes(components)
    IN [n \in nodes |->
          LET old == IF n \in DOMAIN trie THEN trie[n] ELSE <<>> IN
          IF n = components THEN Append(old, path) ELSE old]

\* PathTrie::remove_repository
TrieRemove(trie, path) ==
    LET components == Components(path)
        Keep(repo_path) == repo_path # path
    IN IF components \in DOMAIN trie
       THEN [trie EXCEPT ![components] = Retain(@, Keep)]
       ELSE trie

\* the concatenation of the lists a map holds at the given keys, in some order
RECURSIVE ConcatAt(_, _)
ConcatAt(m, keys) ==
    IF keys = <<>> THEN <<>> ELSE m[Head(keys)] \o ConcatAt(m, Tail(keys))

\* find_repositories_under_path matching the characters of the paths instead
\* of the nodes of the trie
find_by_characters(trie, prefix) ==
    LET Under(repo_path) == StartsWith(repo_path, prefix)
    IN SelectSeq(ConcatAt(trie, SetToSeq(DOMAIN trie)), Under)

\* PathTrie::find_repositories_under_path, with collect_repositories
find_repositories_under_path(trie, prefix) ==
    LET components == Components(prefix) IN
    IF components \notin DOMAIN trie THEN <<>>
    ELSE ConcatAt(trie, SetToSeq({n \in DOMAIN trie :
                     /\ Len(n) >= Len(components)
                     /\ SubSeq(n, 1, Len(components)) = components}))

\* create_repository_cache(1000) in DataStore::new
LruCapacity == 1000

\* LruCache::get: the entries after the lookup (a hit moves to the front)
LruGet(lru, key) ==
    LET Other(e) == e.key # key
        Hit(e) == e.key = key
    IN SelectSeq(lru, Hit) \o SelectSeq(lru, Other)

LruHas(lru, key) == \E i \in 1..Len(lru) : lru[i].key = key
LruValue(lru, key) == lru[CHOOSE i \in 1..Len(lru) : lru[i].key = key].value

\* create_repository_cache: the capacity of the cache it builds
create_repository_cache(capacity) == IF capacity = 0 THEN 1000 ELSE capacity

\* a put that makes room by dropping the entry used last
lru_put_mut_evicts_newest(lru, key, value, cap) ==
    LET Other(e) == e.key # key
        rest == SelectSeq(lru, Other)
    IN <<[key |-> key, value |-> value]>> \o
       (IF Len(rest) + 1 > cap THEN SubSeq(rest, 2, Len(rest)) ELSE rest)

\* LruCache::put on a cache of the capacity cap
LruPutIn(lru, key, value, cap) ==
    LET Other(e) == e.key # key
        put == <<[key |-> key, value |-> value]>> \o SelectSeq(lru, Other)
    IN IF Len(put) > cap THEN SubSeq(put, 1, cap) ELSE put

\* LruCache::put on the cache of the store
LruPut(lru, key, value) == LruPutIn(lru, key, value, LruCapacity)

\* LruCache::pop
LruPop(lru, key) ==
    LET Other(e) == e.key # key IN SelectSeq(lru, Other)

\* str::to_lowercase on the characters
ToLower(name) ==
    [i \in 1..Len(name) |->
        IF name[i] = "P" THEN "p" ELSE IF name[i] = "Q" THEN "q" ELSE name[i]]

\* ((size_mb / 50.0) as u32) * 50: the cast of a negative number is 0
SizeRange(size_mb) == IF size_mb < 0 THEN 0 ELSE (size_mb \div 50) * 50
CommitRange(commit_count) == (commit_count \div 100) * 100

\* RepositoryIndex::new
RepositoryIndexNew ==
    [ by_name |-> EmptyMap, by_size_range |-> EmptyMap,
      by_commit_count_range |-> EmptyMap, by_file_type |-> EmptyMap ]

\* entry(key).or_insert_with(Vec::new).push(path)
PushAt(m, key, path) ==
    Put(m, key, IF key \in DOMAIN m THEN Append(m[key], path) ELSE <<path>>)

\* if let Some(paths) = m.get_mut(key) { paths.retain(|p| p != path) }
RetainAt(m, key, path) ==
    LET Keep(q) == q # path IN
    IF key \in DOMAIN m THEN [m EXCEPT ![key] = Retain(@, Keep)] ELSE m

RECURSIVE PushAtEach(_, _, _)
PushAtEach(m, keys, path) ==
    IF keys = <<>> THEN m ELSE PushAtEach(PushAt(m, Head(keys), path), Tail(keys), path)

RECURSIVE RetainAtEach(_, _, _)
RetainAtEach(m, keys, path) ==
    IF keys = <<>> THEN m ELSE RetainAtEach(RetainAt(m, Head(keys), path), Tail(keys), path)

\* RepositoryIndex::insert_repository
IndexInsert(index, repo) ==
    [ by_name |-> Put(index.by_name, ToLower(repo.name), repo.path),
      by_size_range |-> PushAt(index.by_size_range, SizeRange(repo.size_mb), repo.path),
      by_commit_count_range |->
          PushAt(index.by_commit_count_range, CommitRange(repo.commit_count), repo.path),
      by_file_type |->
          PushAtEach(index.by_file_type, SetToSeq(DOMAIN repo.file_types), repo.path) ]

\* RepositoryIndex::remove_repository
IndexRemove(index, repo) ==
    [ by_name |-> Del(index.by_name, ToLower(repo.name)),
      by_size_range |-> RetainAt(index.by_size_range, SizeRange(repo.size_mb), repo.path),
      by_commit_count_range |->
          RetainAt(index.by_commit_count_range, CommitRange(repo.commit_count), repo.path),
      by_file_type |->
          RetainAtEach(index.by_file_type, SetToSeq(DOMAIN repo.file_types), repo.path) ]

\* RepositoryIndex::find_repositories_by_name_prefix
find_repositories_by_name_prefix(index, prefix) ==
    LET prefix_lower == ToLower(prefix)
        names == SetToSeq({name \in DOMAIN index.by_name : StartsWith(name, prefix_lower)})
    IN [i \in 1..Len(names) |-> index.by_name[names[i]]]

\* RepositoryIndex::find_repositories_by_file_type
find_repositories_by_file_type(index, file_type) ==
    IF file_type \in DOMAIN index.by_file_type THEN index.by_file_type[file_type] ELSE <<>>

\* find_repositories_by_size_range without the last range
size_range_mut_exclusive(index, min_mb, max_mb) ==
    ConcatAt(index.by_size_range,
             SetToSeq({range \in DOMAIN index.by_size_range :
                          /\ SizeRange(min_mb) <= range
                          /\ range < SizeRange(max_mb)}))

\* RepositoryIndex::find_repositories_by_size_range
find_repositories_by_size_range(index, min_mb, max_mb) ==
    ConcatAt(index.by_size_range,
             SetToSeq({range \in DOMAIN index.by_size_range :
                          /\ SizeRange(min_mb) <= range
                          /\ range <= SizeRange(max_mb)}))

----------------------------------------------------------------------------
(* data_store.rs: the operations that use the derived structures.  The     *)
(* store is [path_trie, lru_cache, repo_index]; these operations return    *)
(* [file, ok, ret, store].                                                 *)

OptResult(f, ok, ret, st) == [file |-> f, ok |-> ok, ret |-> ret, store |-> st]

\* the loop of DataStore::rebuild_optimizations over the repositories
RECURSIVE RebuildEach(_, _, _)
RebuildEach(st, repositories, paths) ==
    IF paths = <<>> THEN st
    ELSE LET path == Head(paths)
             repo == repositories[path]
         IN RebuildEach(
                [ path_trie |-> TrieInsert(st.path_trie, path),
                  repo_index |-> IndexInsert(st.repo_index, repo),
                  lru_cache |-> IF repo.is_pinned THEN LruPut(st.lru_cache, path, repo)
                                ELSE st.lru_cache ],
                repositories, Tail(paths))

\* DataStore::rebuild_optimizations
rebuild_optimizations(f, st, now) ==
    Then(load_cache(f, now), LAMBDA l :
    IF l.res = None THEN OptResult(l.file, FALSE, None, st)
    ELSE OptResult(l.file, TRUE, None,
             RebuildEach([st EXCEPT !.path_trie = PathTrieNew,
                                    !.repo_index = RepositoryIndexNew],
                         l.res[1].repositories, SetToSeq(DOMAIN l.res[1].repositories))))

\* get_repository_fast that does not put the record it read into the cache
get_fast_mut_no_backfill(f, st, repo_path, now) ==
    IF LruHas(st.lru_cache, repo_path)
    THEN OptResult(f, TRUE, Some(LruValue(st.lru_cache, repo_path)),
                   [st EXCEPT !.lru_cache = LruGet(@, repo_path)])
    ELSE LET l == load_cache(f, now) IN
         IF l.res = None THEN OptResult(l.file, FALSE, None, st)
         ELSE IF repo_path \in DOMAIN l.res[1].repositories
              THEN OptResult(l.file, TRUE, Some(l.res[1].repositories[repo_path]), st)
              ELSE OptResult(l.file, TRUE, None, st)

\* DataStore::get_repository_fast
get_repository_fast(f, st, repo_path, now) ==
    IF LruHas(st.lru_cache, repo_path)
    THEN OptResult(f, TRUE, Some(LruValue(st.lru_cache, repo_path)),
                   [st EXCEPT !.lru_cache = LruGet(@, repo_path)])
    ELSE LET l == load_cache(f, now) IN
         IF l.res = None THEN OptResult(l.file, FALSE, None, st)
         ELSE IF repo_path \in DOMAIN l.res[1].repositories
              THEN LET repo == l.res[1].repositories[repo_path] IN
                   OptResult(l.file, TRUE, Some(repo),
                             [st EXCEPT !.lru_cache = LruPut(@, repo_path, repo)])
              ELSE OptResult(l.file, TRUE, None, st)

\* DataStore::find_repositories_under_path_optimized: ret is the records, in
\* the order of the trie's list
find_repositories_under_path_optimized(f, st, path, now) ==
    LET repo_paths == find_repositories_under_path(st.path_trie, path) IN
    Then(load_cache(f, now), LAMBDA l :
    IF l.res = None THEN OptResult(l.file, FALSE, None, st)
    ELSE LET Known(p) == p \in DOMAIN l.res[1].repositories
             known == SelectSeq(repo_paths, Known)
         IN OptResult(l.file, TRUE,
                      Some([i \in 1..Len(known) |-> l.res[1].repositories[known[i]]]), st))

\* the elements of a list
Elements(list) == {list[i] : i \in 1..Len(list)}

\* one filter of advanced_search on the candidates so far: <<is_first_filter,
\* candidate_paths>> before and after
Filter(state, supplied, paths) ==
    IF ~supplied THEN state
    ELSE IF state[1] THEN <<FALSE, state[2] \cup Elements(paths)>>
    ELSE <<FALSE, state[2] \cap Elements(paths)>>

\* advanced_search that takes the record of a candidate from the recency cache
\* when it holds one
advanced_search_mut_from_lru(f, st, name_prefix, min_size_mb, max_size_mb, file_type, now) ==
    Then(load_cache(f, now), LAMBDA l :
    IF l.res = None THEN OptResult(l.file, FALSE, None, st)
    ELSE LET cache == l.res[1]
             by_name == Filter(<<TRUE, {}>>, name_prefix # None,
                           IF name_prefix = None THEN <<>>
                           ELSE find_repositories_by_name_prefix(st.repo_index,
                                                                 name_prefix[1]))
             by_size == Filter(by_name, min_size_mb # None /\ max_size_mb # None,
                           IF min_size_mb = None \/ max_size_mb = None THEN <<>>
                           ELSE find_repositories_by_size_range(st.repo_index,
                                    min_size_mb[1], max_size_mb[1]))
             by_type == Filter(by_size, file_type # None,
                           IF file_type = None THEN <<>>
                           ELSE find_repositories_by_file_type(st.repo_index, file_type[1]))
             candidate_paths == IF by_type[1] THEN DOMAIN cache.repositories
                                ELSE by_type[2]
         IN OptResult(l.file, TRUE,
                Some({ IF LruHas(st.lru_cache, p) THEN LruValue(st.lru_cache, p)
                       ELSE cache.repositories[p] :
                         p \in {c \in candidate_paths :
                                   c \in DOMAIN cache.repositories
                                   \/ LruHas(st.lru_cache, c)} }), st))

\* DataStore::advanced_search: ret is the set of the records returned
advanced_search(f, st, name_prefix, min_size_mb, max_size_mb, file_type, now) ==
    Then(load_cache(f, now), LAMBDA l :
    IF l.res = None THEN OptResult(l.file, FALSE, None, st)
    ELSE LET cache == l.res[1]
             by_name == Filter(<<TRUE, {}>>, name_prefix # None,
                           IF name_prefix = None THEN <<>>
                           ELSE find_repositories_by_name_prefix(st.repo_index,
                                                                 name_prefix[1]))
             by_size == Filter(by_name, min_size_mb # None /\ max_size_mb # None,
                           IF min_size_mb = None \/ max_size_mb = None THEN <<>>
                           ELSE find_repositories_by_size_range(st.repo_index,
                                    min_size_mb[1], max_size_mb[1]))
             by_type == Filter(by_size, file_type # None,
                           IF file_type = None THEN <<>>
                           ELSE find_repositories_by_file_type(st.repo_index, file_type[1]))
             candidate_paths == IF by_type[1] THEN DOMAIN cache.repositories
                                ELSE by_type[2]
         IN OptResult(l.file, TRUE,
                Some({cache.repositories[p] :
                         p \in candidate_paths \cap DOMAIN cache.repositories}), st))

\* DataStore::add_repository_optimized
add_repository_optimized(f, st, repo, now) ==
    LET r == add_repository(f, repo, now) IN
    IF ~r.ok THEN OptResult(r.file, FALSE, None, st)
    ELSE OptResult(r.file, TRUE, None,
             [ path_trie |-> TrieInsert(st.path_trie, repo.path),
               repo_index |-> IndexInsert(st.repo_index, repo),
               lru_cache |-> LruPut(st.lru_cache, repo.path, repo) ])

\* DataStore::remove_repository_optimized
remove_repository_optimized(f, st, repo_path, now) ==
    Then(load_cache(f, now), LAMBDA l :
    IF l.res = None THEN OptResult(l.file, FALSE, None, st)
    ELSE LET cache == l.res[1]
             saved == save_cache([cache EXCEPT !.repositories = Del(@, repo_path),
                                               !.last_updated = now])
         IN OptResult(saved, TRUE, None,
                [ path_trie |-> TrieRemove(st.path_trie, repo_path),
                  repo_index |-> IF repo_path \in DOMAIN cache.repositories
                                 THEN IndexRemove(st.repo_index, cache.repositories[repo_path])
                                 ELSE st.repo_index,
                  lru_cache |-> LruPop(st.lru_cache, repo_path) ]))

----------------------------------------------------------------------------
(* The state machine.  Every public operation is one action: the whole     *)
(* handler, its loads and saves included.                                  *)

\* observations of one path
Gone == [git |-> FALSE, opens |-> FALSE, variant |-> 1, pkg |-> None, nm |-> 0]
Broken == [git |-> TRUE, opens |-> FALSE, variant |-> 1, pkg |-> None, nm |-> 0]
Repo(variant) == [git |-> TRUE, opens |-> TRUE, variant |-> variant, pkg |-> None, nm |-> 0]

ObsPlain == {Gone, Broken, Repo(1)}
FsViews == [Paths -> ObsPlain]

Idle == [pc |-> "idle"]

NoPrev == [op |-> "none", arg |-> None, ok |-> TRUE, pre |-> None]
NoOp == [ op |-> "none", arg |-> None, ok |-> TRUE, ret |-> None, pre |-> None, now |-> 0,
          prev |-> NoPrev ]

\* the state after DataStore::new on a machine without a cache file
Init ==
    /\ file = None
    /\ clock = 1
    /\ path_trie = PathTrieNew
    /\ lru_cache = <<>>
    /\ repo_index = RepositoryIndexNew
    /\ th = [t \in Threads |-> Idle]
    /\ last = NoOp

optVars == <<path_trie, lru_cache, repo_index>>
concVars == <<th>>

\* the record of an operation: what it was called with, what it returned, the
\* file before it and the time; `prev` is filled by the operations that are
\* looked at in pairs (see Twice)
Done(op, arg, r) ==
    [ op |-> op, arg |-> arg, ok |-> r.ok, ret |-> r.ret, pre |-> file, now |-> clock,
      prev |-> NoPrev ]

\* the record of an operation that directly follows the same operation
Twice(op, arg, r) ==
    [ Done(op, arg, r) EXCEPT
        !.prev = IF last.op = op
                 THEN [op |-> last.op, arg |-> last.arg, ok |-> last.ok, pre |-> last.pre]
                 ELSE NoPrev ]

\* a step of an operation that uses no derived structure
Step(op, arg, r) ==
    /\ file' = r.file
    /\ last' = Done(op, arg, r)
    /\ UNCHANGED <<clock, optVars, concVars>>

\* time passes
Tick ==
    /\ clock < MaxClock
    /\ clock' = clock + 1
    /\ UNCHANGED <<file, optVars, concVars, last>>

AnalyzeDiscoveredRepositories ==
    \E repo_paths \in (SUBSET Paths) \ {{}}, fsv \in FsViews :
        Step("analyze_discovered_repositories", repo_paths,
             analyze_discovered_repositories(file, repo_paths, fsv, clock))

ScanDiskWithCache ==
    \E force_rescan \in BOOLEAN, fsv \in FsViews :
        Step("scan_disk_with_cache", force_rescan,
             scan_disk_with_cache(file, force_rescan, fsv, clock))

ScanCustomPaths ==
    \E custom_paths \in (SUBSET Roots) \ {{}}, fsv \in FsViews :
        Step("scan_custom_paths", custom_paths,
             scan_custom_paths(file, custom_paths, fsv, clock))

RefreshRepository ==
    \E repo_path \in Paths, obs \in ObsPlain :
        Step("refresh_repository", repo_path,
             refresh_repository(file, repo_path, [p \in Paths |-> obs], clock))

RefreshCache ==
    \E fsv \in FsViews :
        Step("refresh_cache", None, refresh_cache(file, fsv, clock))

ToggleRepositoryPin ==
    \E repo_path \in Paths :
        LET r == toggle_repository_pin(file, repo_path, clock) IN
        /\ file' = r.file
        /\ last' = Twice("toggle_repository_pin", repo_path, r)
        /\ UNCHANGED <<clock, optVars, concVars>>

RemoveRepositoryFromCache ==
    \E repo_path \in Paths :
        Step("remove_repository_from_cache", repo_path,
             remove_repository_from_cache(file, repo_path, clock))

CleanupInvalidRepositories ==
    \E has_git \in SUBSET Paths :
        Step("cleanup_invalid_repositories", has_git,
             cleanup_invalid_repositories(file, has_git, clock))

ClearCache == Step("clear_cache", None, clear_cache(file, clock))

\* the rescans, the pin toggle and the removals, from an empty store
Next ==
    \/ Tick
    \/ AnalyzeDiscoveredRepositories
    \/ ScanDiskWithCache
    \/ ScanCustomPaths
    \/ RefreshRepository
    \/ RefreshCache
    \/ ToggleRepositoryPin
    \/ RemoveRepositoryFromCache
    \/ CleanupInvalidRepositories
    \/ ClearCache

Spec == Init /\ [][Next]_vars

----------------------------------------------------------------------------
(* Reading the file in the properties *)

\* the document a file holds, when it parses in the current format
Parses(f) == f # None /\ FromJson(f[1]) # None
DocOf(f) == FromJson(f[1])[1]

\* the repositories, collections and scan paths of a file; empty when there is
\* no file or it does not parse in the current format
Stored(f) == IF Parses(f) THEN DocOf(f).repositories ELSE EmptyMap
StoredCollections(f) == IF Parses(f) THEN DocOf(f).collections ELSE EmptyMap
StoredScanPaths(f) == IF Parses(f) THEN DocOf(f).scan_paths ELSE EmptyMap

PinOf(repo) == <<repo.is_pinned, repo.pinned_at>>

----------------------------------------------------------------------------
(* Claims on Spec *)

RescanOps ==
    { "scan_disk_with_cache", "scan_custom_paths", "analyze_discovered_repositories",
      "refresh_repository", "refresh_cache" }

\* C1: after a rescan operation (scan_disk_with_cache, scan_custom_paths,
\* analyze_discovered_repositories, refresh_repository, refresh_cache) every path
\* that was in the store before it and has a record after it has the is_pinned
\* and pinned_at it had before; and the analysis itself yields an unpinned
\* record without pinned_at.
C1_RescanPreservesPin ==
    /\ last.op \in RescanOps =>
          \A P \in (DOMAIN Stored(last.pre)) \cap (DOMAIN Stored(file)) :
              PinOf(Stored(file)[P]) = PinOf(Stored(last.pre)[P])
    /\ \A P \in Paths, obs \in ObsPlain :
          analyze_repository(P, obs, clock) # None =>
              PinOf(analyze_repository(P, obs, clock)[1]) = <<FALSE, None>>

\* a rescan has analysed a pinned repository again and stored it, still pinned
C1_Witness ==
    /\ last.op = "scan_custom_paths"
    /\ \E P \in (DOMAIN Stored(last.pre)) \cap (DOMAIN Stored(file)) :
          /\ Stored(last.pre)[P].is_pinned
          /\ Stored(file)[P].is_pinned
          /\ Stored(file)[P].last_analyzed # Stored(last.pre)[P].last_analyzed

\* the last two operations were successful toggles of the same path
ToggledTwice ==
    /\ last.op = "toggle_repository_pin" /\ last.ok
    /\ last.prev.op = "toggle_repository_pin" /\ last.prev.ok
    /\ last.prev.arg = last.arg

\* C4, as claimed: two toggle_repository_pin calls in a row on a path leave its
\* is_pinned and pinned_at as they were before the first, pinned or not.
C4_Original ==
    ToggledTwice =>
        PinOf(Stored(file)[last.arg]) = PinOf(Stored(last.prev.pre)[last.arg])

\* C4, amended: two toggle_repository_pin calls in a row on a path restore its
\* is_pinned; pinned_at is none again when the path was unpinned, and is the
\* time of the second call when the path was pinned.
C4_ToggleTwice ==
    ToggledTwice =>
        LET before == Stored(last.prev.pre)[last.arg]
            after == Stored(file)[last.arg]
        IN /\ after.is_pinned = before.is_pinned
           /\ ~before.is_pinned => after.pinned_at = None
           /\ before.is_pinned => after.pinned_at = Some(last.now)

\* a pinned path was toggled twice and is pinned again, at a later time
C4_Witness ==
    /\ ToggledTwice
    /\ Stored(last.prev.pre)[last.arg].is_pinned
    /\ Stored(file)[last.arg].is_pinned
    /\ Stored(file)[last.arg].pinned_at # Stored(last.prev.pre)[last.arg].pinned_at

\* C5: in every persisted document reached from an empty store, a repository
\* record has a pinned_at exactly when it is pinned.
C5_PinnedAtIffPinned ==
    \A P \in DOMAIN Stored(file) :
        IsSome(Stored(file)[P].pinned_at) <=> Stored(file)[P].is_pinned

\* a record was pinned, then unpinned, and another is still pinned after a
\* cache refresh
C5_Witness ==
    /\ last.op = "refresh_cache"
    /\ \E P, Q \in DOMAIN Stored(file) :
          /\ Stored(file)[P].is_pinned /\ IsSome(Stored(file)[P].pinned_at)
          /\ ~Stored(file)[Q].is_pinned /\ Stored(file)[Q].pinned_at = None
          /\ Stored(file)[Q].last_analyzed > 1

----------------------------------------------------------------------------
(* Loading documents that are already on disk: what an earlier version of  *)
(* the program wrote, or a hand-edited file.                               *)

P1 == <<"/", "u", "/", "p">>

\* the repository objects of such a file: a record as the analysis writes it,
\* with is_pinned absent, false or true, and with or without node_modules_info
DiskRepos ==
    { [ RepoToJson(Analyzed(P1, Repo(1), nmi, 0)) EXCEPT
          !.is_pinned = pin[1], !.pinned_at = pin[2] ] :
      pin \in { <<None, None>>, <<Some(FALSE), None>>, <<Some(TRUE), Some(0)>> },
      nmi \in { None,
                Some([ total_size_mb |-> 5, count |-> 1,
                       paths |-> << P1 \o <<"/", "n", "m">> >>,
                       last_scanned |-> 0, package_json_modified |-> 0 ]) } }

\* the collection objects: with a color, with an empty color, without the key
DiskCollections(members) ==
    { [ id |-> Some("c1"), name |-> Some("work"), color |-> color,
        repository_paths |-> Some(members), created_at |-> Some(0) ] :
      color \in { None, Some(""), Some("#ff0000") } }

\* the documents: no repository or one, the collections key absent, empty or
\* with one collection, last_updated present or not (no format parses without)
DiskDocs ==
    { [ repositories |-> Some(repos), scan_paths |-> Some(EmptyMap),
        collections |-> colls, last_updated |-> updated, cache_version |-> Some("1.3") ] :
      repos \in {EmptyMap} \cup { [p \in {P1} |-> j] : j \in DiskRepos },
      colls \in {None, Some(EmptyMap)}
                \cup { Some([c \in {"c1"} |-> j]) : j \in DiskCollections(<<P1>>) },
      updated \in {None, Some(0)} }

InitMigration ==
    /\ file \in {Some(j) : j \in DiskDocs}
    /\ clock = 1
    /\ path_trie = PathTrieNew
    /\ lru_cache = <<>>
    /\ repo_index = RepositoryIndexNew
    /\ th = [t \in Threads |-> Idle]
    /\ last = NoOp

\* DataStore::load_cache, called on its own (load_cached_repositories,
\* get_collections, get_scan_paths, ... are this call and a projection)
LoadCache ==
    LET l == load_cache(file, clock) IN
    /\ file' = l.file
    /\ last' = Twice("load_cache", None, Result(l.file, l.res # None, l.res))
    /\ UNCHANGED <<clock, optVars, concVars>>

NextMigration ==
    \/ Tick
    \/ LoadCache
    \/ ToggleRepositoryPin

SpecMigration == InitMigration /\ [][NextMigration]_vars

\* the last operation was a load_cache that went through migrate_cache_format:
\* the file did not parse in the current format and parsed in the old one
Migrated ==
    /\ last.op = "load_cache" /\ last.ok
    /\ last.pre # None /\ FromJson(last.pre[1]) = None

\* C2, as claimed: when load_cache accepts a document through the old-format
\* path, every value the payload holds for a repository's is_pinned, pinned_at
\* and node_modules_info, and its collections with their members, is in the
\* document returned and in the document written back.
C2_MigrationKeepsData ==
    Migrated =>
        LET j == last.pre[1]
            loaded == last.ret[1]
            Kept(doc) ==
                /\ \A p \in DOMAIN j.repositories[1] :
                     LET jr == j.repositories[1][p] IN
                     /\ p \in DOMAIN doc.repositories
                     /\ IsSome(jr.is_pinned) => doc.repositories[p].is_pinned = jr.is_pinned[1]
                     /\ IsSome(jr.pinned_at) => doc.repositories[p].pinned_at = jr.pinned_at
                     /\ IsSome(jr.node_modules_info) =>
                            doc.repositories[p].node_modules_info = jr.node_modules_info
                /\ IsSome(j.collections) =>
                     \A c \in DOMAIN j.collections[1] :
                        /\ c \in DOMAIN doc.collections
                        /\ doc.collections[c].repository_paths =
                               j.collections[1][c].repository_paths[1]
        IN Kept(loaded) /\ Parses(file) /\ Kept(DocOf(file))

\* the document lacks the collections key, is_pinned on a repository or color on
\* a collection, and nothing else
LacksNewField(j) ==
    /\ IsSome(j.repositories) /\ IsSome(j.scan_paths)
    /\ IsSome(j.last_updated) /\ IsSome(j.cache_version)
    /\ \/ ~IsSome(j.collections)
       \/ \E p \in DOMAIN j.repositories[1] : ~IsSome(j.repositories[1][p].is_pinned)
       \/ /\ IsSome(j.collections)
          /\ \E c \in DOMAIN j.collections[1] : ~IsSome(j.collections[1][c].color)

\* C3, as claimed: a document without the collections key, without is_pinned on
\* a repository or without color on a collection loads with the defaults
\* (collections empty, repository unpinned without pinned_at, color "#e5e7eb"),
\* is written back at version "1.4", and the load after that writes nothing.
C3_MigrationDefaults ==
    /\ (last.op = "load_cache" /\ last.pre # None /\ LacksNewField(last.pre[1])) =>
          /\ last.ok
          /\ LET j == last.pre[1]
                 loaded == last.ret[1]
             IN /\ ~IsSome(j.collections) => DOMAIN loaded.collections = {}
                /\ \A p \in DOMAIN j.repositories[1] :
                      ~IsSome(j.repositories[1][p].is_pinned) =>
                          /\ p \in DOMAIN loaded.repositories
                          /\ PinOf(loaded.repositories[p]) = <<FALSE, None>>
                /\ IsSome(j.collections) =>
                      \A c \in DOMAIN j.collections[1] :
                          ~IsSome(j.collections[1][c].color) =>
                              /\ c \in DOMAIN loaded.collections
                              /\ loaded.collections[c].color = DefaultColor
                /\ loaded.cache_version = CurrentVersion
                /\ file = save_cache(loaded)
    /\ (last.op = "load_cache" /\ last.prev.op = "load_cache" /\ last.prev.ok) =>
          file = last.pre

----------------------------------------------------------------------------
(* Commands running at the same time.  The commands of lib.rs are async    *)
(* fns, each on its own GitScanner and DataStore, and nothing is held      *)
(* between the load_cache and the save_cache of a store operation: the     *)
(* read of the file and the write of the file are two steps, and steps of  *)
(* other commands can come between them.                                   *)

Commands == {"toggle_repository_pin", "delete_repository"}

\* the mutation a command applies to the cache it loaded: [ok, cache, ret]
Mutation(cmd, cache, repo_path, now) ==
    IF cmd = "toggle_repository_pin" THEN toggle_mut(cache, repo_path, now)
    ELSE remove_mut(cache, repo_path, now)

\* the command as one store operation on the file f
Whole(cmd, f, repo_path, now) ==
    IF cmd = "toggle_repository_pin" THEN toggle_repository_pin(f, repo_path, now)
    ELSE remove_repository_from_cache(f, repo_path, now)

\* the load_cache of a command; a command whose load fails returns there
CommandLoad(t) ==
    /\ th[t].pc = "idle"
    /\ \E cmd \in Commands, repo_path \in Paths :
         LET l == load_cache(file, clock) IN
         /\ file' = l.file
         /\ th' = [th EXCEPT ![t] =
                     IF l.res = None THEN Idle
                     ELSE [ pc |-> "loaded", cmd |-> cmd, arg |-> repo_path,
                            cache |-> l.res[1] ]]
    /\ UNCHANGED <<clock, optVars, last>>

\* the rest of the command: the mutation of the loaded cache and save_cache
CommandSave(t) ==
    /\ th[t].pc = "loaded"
    /\ LET r == Commit([file |-> file],
                       Mutation(th[t].cmd, th[t].cache, th[t].arg, clock))
       IN /\ file' = r.file
          /\ last' = Done(th[t].cmd, th[t].arg, r)
    /\ th' = [th EXCEPT ![t] = Idle]
    /\ UNCHANGED <<clock, optVars>>

\* the store after refresh_repository has recorded the two repositories
TwoRepositories ==
    LET fsv == [p \in Paths |-> Repo(1)]
        P2 == <<"/", "u", "/", "p", "q">>
    IN refresh_repository(refresh_repository(None, P1, fsv, 1).file, P2, fsv, 1).file

InitConcurrent ==
    /\ file = TwoRepositories
    /\ clock = 1
    /\ path_trie = PathTrieNew
    /\ lru_cache = <<>>
    /\ repo_index = RepositoryIndexNew
    /\ th = [t \in Threads |-> Idle]
    /\ last = NoOp

NextConcurrent ==
    \/ Tick
    \/ \E t \in Threads : CommandLoad(t)
    \/ \E t \in Threads : CommandSave(t)

SpecConcurrent == InitConcurrent /\ [][NextConcurrent]_vars

\* C6, as claimed: the load-mutate-save cycles of concurrent commands do not
\* interleave, so a command that returned success leaves on disk its effect on
\* the document the command before it left there: no update is lost.
C6_NoLostUpdate ==
    (last.op \in Commands /\ last.ok) =>
        file = Whole(last.op, last.pre, last.arg, last.now).file

----------------------------------------------------------------------------
(* One long-lived DataStore: the operations that maintain path_trie,       *)
(* lru_cache and repo_index, next to the operations on the same file that  *)
(* do not.                                                                 *)

\* how often one path may be pushed to the trie and the index lists
MaxIndexed == 2

TheStore == [path_trie |-> path_trie, lru_cache |-> lru_cache, repo_index |-> repo_index]

\* how often the trie lists a path
TrieCount(trie, path) ==
    LET Is(repo_path) == repo_path = path IN
    Len(SelectSeq(find_repositories_under_path(trie, <<>>), Is))

\* how often the size index lists a path
IndexCount(index, path) ==
    LET Is(repo_path) == repo_path = path IN
    Len(SelectSeq(ConcatAt(index.by_size_range, SetToSeq(DOMAIN index.by_size_range)), Is))

\* a step of an operation of the store that uses the derived structures
StepOpt(op, arg, r) ==
    /\ file' = r.file
    /\ path_trie' = r.store.path_trie
    /\ lru_cache' = r.store.lru_cache
    /\ repo_index' = r.store.repo_index
    /\ last' = Done(op, arg, r)
    /\ UNCHANGED <<clock, concVars>>

RebuildOptimizations ==
    StepOpt("rebuild_optimizations", None, rebuild_optimizations(file, TheStore, clock))

GetRepositoryFast ==
    \E repo_path \in Paths :
        StepOpt("get_repository_fast", repo_path,
                get_repository_fast(file, TheStore, repo_path, clock))

\* the repository handed in is what an analysis of the path returned
AddRepositoryOptimized ==
    \E repo_path \in Paths :
        /\ TrieCount(path_trie, repo_path) < MaxIndexed
        /\ IndexCount(repo_index, repo_path) < MaxIndexed
        /\ StepOpt("add_repository_optimized", repo_path,
                   add_repository_optimized(file, TheStore,
                       analyze_repository(repo_path, Repo(1), clock)[1], clock))

RemoveRepositoryOptimized ==
    \E repo_path \in Paths :
        StepOpt("remove_repository_optimized", repo_path,
                remove_repository_optimized(file, TheStore, repo_path, clock))

NextFast ==
    \/ Tick
    \/ AddRepositoryOptimized
    \/ RemoveRepositoryOptimized
    \/ RebuildOptimizations
    \/ GetRepositoryFast
    \/ ToggleRepositoryPin
    \/ RemoveRepositoryFromCache
    \/ ClearCache

SpecFast == Init /\ [][NextFast]_vars

\* C7, as claimed: whatever store operations came before, get_repository_fast(P)
\* returns the record the file holds for P, and none when the file has no P.
C7_FastReturnsStored ==
    (last.op = "get_repository_fast" /\ last.ok) =>
        last.ret = IF last.arg \in DOMAIN Stored(file)
                   THEN Some(Stored(file)[last.arg]) ELSE None

----------------------------------------------------------------------------
(* Collections next to the operations that add and remove repositories     *)

CreateCollection ==
    \E collection_id \in CollIds, name \in CollNames, color \in Colors :
        \* Uuid::new_v4 returns an id no collection has
        /\ collection_id \notin DOMAIN StoredCollections(file)
        /\ Step("create_collection", <<name, color>>,
                create_collection(file, collection_id, name, color, clock))

DeleteCollection ==
    \E collection_id \in CollIds :
        Step("delete_collection", collection_id,
             delete_collection(file, collection_id, clock))

AddRepositoryToCollection ==
    \E collection_id \in CollIds, repo_path \in Paths :
        Step("add_repository_to_collection", <<collection_id, repo_path>>,
             add_repository_to_collection(file, collection_id, repo_path, clock))

RemoveRepositoryFromCollection ==
    \E collection_id \in CollIds, repo_path \in Paths :
        Step("remove_repository_from_collection", <<collection_id, repo_path>>,
             remove_repository_from_collection(file, collection_id, repo_path, clock))

GetRepositoriesInCollection ==
    \E collection_id \in CollIds :
        Step("get_repositories_in_collection", collection_id,
             get_repositories_in_collection(file, collection_id, clock))

NextCollections ==
    \/ Tick
    \/ RefreshRepository
    \/ RefreshCache
    \/ RemoveRepositoryFromCache
    \/ RemoveRepositoryOptimized
    \/ CleanupInvalidRepositories
    \/ CreateCollection
    \/ DeleteCollection
    \/ AddRepositoryToCollection
    \/ RemoveRepositoryFromCollection
    \/ GetRepositoriesInCollection

SpecCollections == Init /\ [][NextCollections]_vars

\* the member lists of the collections of a file
Members(f) ==
    [c \in DOMAIN StoredCollections(f) |-> StoredCollections(f)[c].repository_paths]

\* C8, as claimed: in every persisted document every path of every collection's
\* repository_paths is a key of repositories.
C8_Original ==
    \A c \in DOMAIN Members(file) :
        \A i \in 1..Len(Members(file)[c]) : Members(file)[c][i] \in DOMAIN Stored(file)

\* C8, amended: a path that an operation has put into a collection's
\* repository_paths is a key of repositories in the document that operation
\* wrote; a path that is not a key was already in the list before the operation.
C8_NewMembersAreKeys ==
    \A c \in DOMAIN Members(file) :
        \A i \in 1..Len(Members(file)[c]) :
            LET path == Members(file)[c][i] IN
            \/ path \in DOMAIN Stored(file)
            \/ /\ c \in DOMAIN Members(last.pre)
               /\ Contains(Members(last.pre)[c], path)

\* add_repository_to_collection has just put a path into a list
C8_Witness ==
    /\ last.op = "add_repository_to_collection" /\ last.ok
    /\ Contains(Members(file)[last.arg[1]], last.arg[2])
    /\ ~Contains(Members(last.pre)[last.arg[1]], last.arg[2])

Removals == {"remove_repository_from_cache", "remove_repository_optimized", "refresh_cache"}

\* C9: an operation that removes a repository, and the upsert that brings it
\* back, leave every collection's stored repository_paths as they were; and
\* get_repositories_in_collection(C) returns the records of the paths of C that
\* are keys of repositories, in list order, and leaves the stored lists as they
\* were: a path removed and upserted again is listed at its old position.
C9_LazyMembership ==
    /\ (last.op \in Removals \cup {"refresh_repository"} /\ last.ok) =>
          Members(file) = Members(last.pre)
    /\ (last.op = "get_repositories_in_collection" /\ last.ok) =>
          LET IsKey(path) == path \in DOMAIN Stored(file)
              listed == SelectSeq(Members(file)[last.arg], IsKey)
          IN /\ Len(last.ret) = Len(listed)
             /\ \A i \in 1..Len(listed) : last.ret[i] = Stored(file)[listed[i]]
             /\ Members(file) = Members(last.pre)

\* get_repositories_in_collection has returned one record of a list of two
\* paths, the other path having been removed from repositories
C9_Witness ==
    /\ last.op = "get_repositories_in_collection" /\ last.ok
    /\ Len(Members(file)[last.arg]) = 2
    /\ Len(last.ret) = 1
    /\ last.ret[1].path = Members(file)[last.arg][2]

\* the arguments of the last membership operation name a collection the
\* document before it does not have / a path that is not a key of repositories
NoSuchCollection(collection_id) == collection_id \notin DOMAIN StoredCollections(last.pre)
NoSuchRepository(repo_path) == repo_path \notin DOMAIN Stored(last.pre)

MembershipOps == {"add_repository_to_collection", "remove_repository_from_collection"}

EmptyColor(f) == \E c \in DOMAIN StoredCollections(f) : StoredCollections(f)[c].color = ""

C11_NoDuplicateMembers ==
    /\ \A c \in DOMAIN Members(file) :
          \A i, k \in 1..Len(Members(file)[c]) :
              Members(file)[c][i] = Members(file)[c][k] => i = k
    /\ (last.op = "add_repository_to_collection" /\ last.ok
          /\ Contains(Members(last.pre)[last.arg[1]], last.arg[2])) =>
          Members(file)[last.arg[1]] = Members(last.pre)[last.arg[1]]

\* a path has been added to a list of two that already holds it
C11_Witness ==
    /\ last.op = "add_repository_to_collection" /\ last.ok
    /\ Len(Members(last.pre)[last.arg[1]]) = 2
    /\ Contains(Members(last.pre)[last.arg[1]], last.arg[2])

----------------------------------------------------------------------------
(* The store operations on a document that holds repositories, scan paths  *)
(* and more than one collection.                                           *)

TwoNames == {"work", "home"}

CreateCollectionOfTwo ==
    \E collection_id \in CollIds, name \in TwoNames, color \in Colors :
        \* Uuid::new_v4 returns an id no collection has
        /\ collection_id \notin DOMAIN StoredCollections(file)
        /\ Step("create_collection", <<name, color, collection_id>>,
                create_collection(file, collection_id, name, color, clock))

AddScanPath ==
    \E path \in DiskRoots :
        Step("add_scan_path", path, add_scan_path(file, path, clock))

\* the store after refresh_repository has recorded one repository
OneRepository == refresh_repository(None, P1, [p \in Paths |-> Repo(1)], 1).file

InitStore ==
    /\ file = OneRepository
    /\ clock = 1
    /\ path_trie = PathTrieNew
    /\ lru_cache = <<>>
    /\ repo_index = RepositoryIndexNew
    /\ th = [t \in Threads |-> Idle]
    /\ last = NoOp

NextStore ==
    \/ Tick
    \/ ToggleRepositoryPin
    \/ AddScanPath
    \/ CreateCollectionOfTwo
    \/ DeleteCollection
    \/ AddRepositoryToCollection
    \/ GetRepositoriesInCollection

SpecStore == InitStore /\ [][NextStore]_vars

\* C12, as claimed: delete_collection(C) removes C and nothing else: the
\* repositories, the scan paths and every other collection are as before.
C12_DeleteRemovesOnlyC ==
    (last.op = "delete_collection" /\ last.ok) =>
        /\ Stored(file) = Stored(last.pre)
        /\ StoredScanPaths(file) = StoredScanPaths(last.pre)
        /\ StoredCollections(file) = Del(StoredCollections(last.pre), last.arg)

\* the names of the collections of a file
Names(f) == {StoredCollections(f)[c].name : c \in DOMAIN StoredCollections(f)}

\* C13, as claimed: create_collection(name, color) fails and leaves the file
\* as it was when a collection of that name exists; no document holds two
\* collections of one name; a successful create adds exactly one collection,
\* under an id no collection had, with no members.
C13_CreateCollection ==
    /\ (last.op = "create_collection" /\ last.arg[1] \in Names(last.pre)) =>
          (~last.ok /\ file = last.pre)
    /\ \A c, d \in DOMAIN StoredCollections(file) :
          StoredCollections(file)[c].name = StoredCollections(file)[d].name => c = d
    /\ (last.op = "create_collection" /\ last.ok) =>
          \E id \in DOMAIN StoredCollections(file) \ DOMAIN StoredCollections(last.pre) :
              /\ DOMAIN StoredCollections(file) = DOMAIN StoredCollections(last.pre) \cup {id}
              /\ StoredCollections(file)[id].name = last.arg[1]
              /\ StoredCollections(file)[id].repository_paths = <<>>

\* the operations that return "... not found" or "... already exists"
FailingOps ==
    { "toggle_repository_pin", "create_collection", "delete_collection",
      "add_repository_to_collection", "get_repositories_in_collection" }

\* C14, as claimed: toggle_repository_pin(P) for a P that is not a key of
\* repositories fails and leaves the file as it was, and so does every store
\* operation that returns a not-found or a duplicate-name error.
C14_ErrorsLeaveFile ==
    /\ (last.op = "toggle_repository_pin" /\ NoSuchRepository(last.arg)) =>
          (~last.ok /\ file = last.pre)
    /\ (last.op \in FailingOps /\ ~last.ok) => file = last.pre

----------------------------------------------------------------------------
(* The path trie alone: PathTrie::insert_repository, remove_repository and *)
(* find_repositories_under_path applied in any order to one trie.  `last`  *)
(* records the call, what it returned and, in `live`, how often each path  *)
(* has been inserted since it was last removed.                            *)

\* two sibling directories of which one name begins with the other's, and a
\* repository one level further down
TriePaths ==
    { <<"/", "u", "/", "p">>, <<"/", "u", "/", "p", "q">>,
      <<"/", "u", "/", "s", "/", "p">> }

\* the arguments of a query: the root, each directory written with and without
\* a closing separator, the repositories and a directory that does not exist
TrieQueries ==
    TriePaths \cup
    { <<>>, <<"/", "u">>, <<"/", "u", "/">>, <<"/", "u", "/", "s">>, <<"/", "s">> }

NoTrieOp ==
    [ op |-> "none", arg |-> None, ret |-> <<>>, live |-> [p \in TriePaths |-> 0] ]

InitTrie ==
    /\ file = None
    /\ clock = 1
    /\ path_trie = PathTrieNew
    /\ lru_cache = <<>>
    /\ repo_index = RepositoryIndexNew
    /\ th = [t \in Threads |-> Idle]
    /\ last = NoTrieOp

TrieInsertRepository ==
    \E path \in TriePaths :
        /\ last.live[path] < MaxIndexed
        /\ path_trie' = TrieInsert(path_trie, path)
        /\ last' = [ op |-> "insert_repository", arg |-> path, ret |-> <<>>,
                     live |-> [last.live EXCEPT ![path] = @ + 1] ]
        /\ UNCHANGED <<file, clock, lru_cache, repo_index, concVars>>

TrieRemoveRepository ==
    \E path \in TriePaths :
        /\ path_trie' = TrieRemove(path_trie, path)
        /\ last' = [ op |-> "remove_repository", arg |-> path, ret |-> <<>>,
                     live |-> [last.live EXCEPT ![path] = 0] ]
        /\ UNCHANGED <<file, clock, lru_cache, repo_index, concVars>>

TrieFindRepositoriesUnderPath ==
    \E prefix \in TrieQueries :
        /\ last' = [ op |-> "find_repositories_under_path", arg |-> prefix,
                     ret |-> find_repositories_under_path(path_trie, prefix),
                     live |-> last.live ]
        /\ UNCHANGED <<file, clock, optVars, concVars>>

NextTrie == TrieInsertRepository \/ TrieRemoveRepository \/ TrieFindRepositoriesUnderPath

SpecTrie == InitTrie /\ [][NextTrie]_vars

\* the segments of `path` begin with the segments of `prefix`
SegmentsStartWith(path, prefix) ==
    /\ Len(Components(path)) >= Len(Components(prefix))
    /\ SubSeq(Components(path), 1, Len(Components(prefix))) = Components(prefix)

Occurrences(list, x) == Cardinality({i \in 1..Len(list) : list[i] = x})

\* C15: find_repositories_under_path(prefix) returns exactly the paths inserted
\* and not since removed whose '/'-separated non-empty segments begin with the
\* segments of prefix, each as often as it was inserted: a directory whose name
\* only begins with the queried name (/u/pq for the query /u/p) is not returned,
\* and with the three paths inserted once each the query of their common parent
\* returns 3 paths and the query of the sub-directory returns 1.
C15_TrieBySegment ==
    last.op = "find_repositories_under_path" =>
        /\ \A path \in TriePaths :
              Occurrences(last.ret, path) =
                  IF SegmentsStartWith(path, last.arg) THEN last.live[path] ELSE 0
        /\ \A i \in 1..Len(last.ret) : last.ret[i] \in TriePaths
        /\ (last.live = [p \in TriePaths |-> 1] /\ last.arg = <<"/", "u">>) =>
              Len(last.ret) = 3
        /\ (last.live = [p \in TriePaths |-> 1] /\ last.arg = <<"/", "u", "/", "s">>) =>
              last.ret = << <<"/", "u", "/", "s", "/", "p">> >>

\* a query of /u/p while /u/pq is in the trie, after a path has been removed
C15_Witness ==
    /\ last.op = "find_repositories_under_path"
    /\ last.arg = <<"/", "u", "/", "p">>
    /\ last.live[<<"/", "u", "/", "p", "q">>] = 1
    /\ last.live[<<"/", "u", "/", "p">>] = 1
    /\ last.ret = << <<"/", "u", "/", "p">> >>
    /\ Components(<<"/", "u", "/", "s", "/", "p">>) \in DOMAIN path_trie
    /\ last.live[<<"/", "u", "/", "s", "/", "p">>] = 0

----------------------------------------------------------------------------
(* The repository index alone: RepositoryIndex::insert_repository and      *)
(* remove_repository applied in any order to one index.  `last` records    *)
(* the call and the index before it, and in `prev` the call before it.     *)

\* the fields of a GitRepository the index reads
IndexRecord(name, path, size_mb, file_types) ==
    [ name |-> name, path |-> path, size_mb |-> size_mb, commit_count |-> 10,
      file_types |-> file_types ]

\* two records whose names differ only in case, and a second record of the
\* first one's path in another size range
IndexRecords ==
    { IndexRecord(<<"p">>, <<"/", "u", "/", "p">>, 10, [t \in {"rs"} |-> 1]),
      IndexRecord(<<"P">>, <<"/", "u", "/", "p", "q">>, 10, [t \in {"rs"} |-> 1]),
      IndexRecord(<<"q">>, <<"/", "u", "/", "p">>, 60, EmptyMap) }

NoIndexOp ==
    [ op |-> "none", arg |-> None, pre |-> RepositoryIndexNew,
      prev |-> [op |-> "none", arg |-> None, pre |-> RepositoryIndexNew] ]

IndexDone(op, repo) ==
    [ op |-> op, arg |-> repo, pre |-> repo_index,
      prev |-> [op |-> last.op, arg |-> last.arg, pre |-> last.pre] ]

\* how often the lists of a map of the index hold a path
ListedCount(m, path) ==
    LET Is(repo_path) == repo_path = path IN
    Len(SelectSeq(ConcatAt(m, SetToSeq(DOMAIN m)), Is))

InitIndex ==
    /\ file = None
    /\ clock = 1
    /\ path_trie = PathTrieNew
    /\ lru_cache = <<>>
    /\ repo_index = RepositoryIndexNew
    /\ th = [t \in Threads |-> Idle]
    /\ last = NoIndexOp

IndexInsertRepository ==
    \E repo \in IndexRecords :
        /\ ListedCount(repo_index.by_size_range, repo.path) < MaxIndexed
        /\ ListedCount(repo_index.by_commit_count_range, repo.path) < MaxIndexed
        /\ ListedCount(repo_index.by_file_type, repo.path) < MaxIndexed
        /\ repo_index' = IndexInsert(repo_index, repo)
        /\ last' = IndexDone("insert_repository", repo)
        /\ UNCHANGED <<file, clock, path_trie, lru_cache, concVars>>

IndexRemoveRepository ==
    \E repo \in IndexRecords :
        /\ repo_index' = IndexRemove(repo_index, repo)
        /\ last' = IndexDone("remove_repository", repo)
        /\ UNCHANGED <<file, clock, path_trie, lru_cache, concVars>>

NextIndex == IndexInsertRepository \/ IndexRemoveRepository

SpecIndex == InitIndex /\ [][NextIndex]_vars

\* the keys of a map of lists that list something
Listing(m) == [k \in {x \in DOMAIN m : m[x] # <<>>} |-> m[k]]

\* C16, as claimed: insert_repository(r) directly followed by
\* remove_repository(r) leaves by_name and what by_size_range,
\* by_commit_count_range and by_file_type list as they were before the insert,
\* whatever the index held before.
C16_IndexSymmetry ==
    (/\ last.op = "remove_repository"
     /\ last.prev.op = "insert_repository"
     /\ last.prev.arg = last.arg) =>
        /\ repo_index.by_name = last.prev.pre.by_name
        /\ Listing(repo_index.by_size_range) = Listing(last.prev.pre.by_size_range)
        /\ Listing(repo_index.by_commit_count_range) =
              Listing(last.prev.pre.by_commit_count_range)
        /\ Listing(repo_index.by_file_type) = Listing(last.prev.pre.by_file_type)

----------------------------------------------------------------------------
(* The rescans of one repository that has a package.json: what a rescan    *)
(* sees of the manifest and of the node_modules directories is its input,  *)
(* recorded as the argument of the operation.                              *)

\* a repository with a package.json modified at `modified` and `nm`
\* node_modules directories
RepoWithManifest(modified, nm) ==
    [git |-> TRUE, opens |-> TRUE, variant |-> 1, pkg |-> Some(modified), nm |-> nm]

ObsManifest == {RepoWithManifest(m, nm) : m \in Times, nm \in 0..1}

\* the file system with the one repository
OnlyP1(obs) == [p \in Paths |-> IF p = P1 THEN obs ELSE Gone]

RefreshRepositoryOfManifest ==
    \E obs \in ObsManifest :
        Step("refresh_repository", obs, refresh_repository(file, P1, OnlyP1(obs), clock))

RefreshCacheOfManifest ==
    \E obs \in ObsManifest :
        Step("refresh_cache", obs, refresh_cache(file, OnlyP1(obs), clock))

ScanDiskOfManifest ==
    \E force_rescan \in BOOLEAN, obs \in ObsManifest :
        Step("scan_disk_with_cache", obs,
             scan_disk_with_cache(file, force_rescan, OnlyP1(obs), clock))

NextManifest ==
    \/ Tick
    \/ RefreshRepositoryOfManifest
    \/ RefreshCacheOfManifest
    \/ ScanDiskOfManifest

SpecManifest == Init /\ [][NextManifest]_vars

\* the stored dependency-directory info of P1, None without one
InfoOf(f) ==
    IF Parses(f) /\ P1 \in DOMAIN Stored(f) THEN Stored(f)[P1].node_modules_info ELSE None

\* C17, as claimed: when a rescan analyses a repository that has stored
\* node_modules info and the manifest is not newer than the stored
\* package_json_modified, the record persisted afterwards carries the stored
\* info unchanged, last_scanned included; when the manifest is newer the info
\* is what a fresh scan of the directories returns.
C17_RescanSkip ==
    (/\ last.op \in {"refresh_repository", "refresh_cache", "scan_disk_with_cache"}
     /\ last.ok
     /\ InfoOf(last.pre) # None
     /\ Parses(file) /\ P1 \in DOMAIN Stored(file)) =>
        IF last.arg.pkg[1] <= InfoOf(last.pre)[1].package_json_modified
        THEN InfoOf(file) = InfoOf(last.pre)
        ELSE InfoOf(file) = scan_node_modules(P1, last.arg, last.now)

----------------------------------------------------------------------------
(* The scans on a store with its derived structures: the scans and the     *)
(* refresh of one repository write the file with add_repository, and       *)
(* rebuild_optimizations is what DataStore::new runs at start.             *)

NextScanned ==
    \/ Tick
    \/ ScanDiskWithCache
    \/ RefreshRepository
    \/ RemoveRepositoryFromCache
    \/ RebuildOptimizations

SpecScanned == Init /\ [][NextScanned]_vars

\* the records the last operation wrote: the keys that are new or changed
Persisted ==
    IF ~Parses(file) THEN {}
    ELSE {path \in DOMAIN Stored(file) :
             \/ ~Parses(last.pre)
             \/ path \notin DOMAIN Stored(last.pre)
             \/ Stored(last.pre)[path] # Stored(file)[path]}

\* C18, as claimed: after a scan or a refresh, every record it persisted is
\* returned by the trie for its parent directory and for the root, and by the
\* name-prefix, the size-range and the file-type index of the store.
C18_ScannedIsIndexed ==
    (last.op \in {"scan_disk_with_cache", "refresh_repository"} /\ last.ok) =>
        \A path \in Persisted :
            LET repo == Stored(file)[path] IN
            /\ Contains(find_repositories_under_path(path_trie, <<"/", "u">>), path)
            /\ Contains(find_repositories_under_path(path_trie, <<>>), path)
            /\ Contains(find_repositories_by_name_prefix(repo_index, repo.name), path)
            /\ Contains(find_repositories_by_size_range(repo_index, repo.size_mb, repo.size_mb),
                     path)
            /\ \A file_type \in DOMAIN repo.file_types :
                  Contains(find_repositories_by_file_type(repo_index, file_type), path)

----------------------------------------------------------------------------
(* The save of a command in its steps.  save_cache is std::fs::write: it   *)
(* opens the cache file with create and truncate, then writes the new      *)
(* text.  Thread 1 runs the command; between the two steps, and when the   *)
(* write returns an error or the process stops, the file is what the open  *)
(* left.                                                                   *)

\* the text of a file that was truncated and not, or only in part, written:
\* no key of a document can be read from it
Truncated ==
    [ repositories |-> None, scan_paths |-> None, collections |-> None,
      last_updated |-> None, cache_version |-> None ]

WriteError == Some("Failed to write cache file")

\* the record of a command that reached its save
Saved(ok, ret) ==
    [ op |-> th[1].cmd, arg |-> th[1].arg, ok |-> ok, ret |-> ret, pre |-> th[1].pre,
      now |-> clock, prev |-> NoPrev ]

\* a command that returns before its save: its load or its mutation fails
CommandReturnsErr ==
    /\ th[1].pc = "idle"
    /\ \E cmd \in Commands, repo_path \in Paths :
         /\ ~Whole(cmd, file, repo_path, clock).ok
         /\ Step(cmd, repo_path, Whole(cmd, file, repo_path, clock))

\* load_cache, the mutation, the serialisation and the open of fs::write
WriteOpen ==
    /\ th[1].pc = "idle"
    /\ \E cmd \in Commands, repo_path \in Paths :
         LET r == Whole(cmd, file, repo_path, clock) IN
         /\ r.ok
         /\ file' = Some(Truncated)
         /\ th' = [th EXCEPT ![1] = [ pc |-> "writing", cmd |-> cmd, arg |-> repo_path,
                                      content |-> r.file, pre |-> file ]]
    /\ UNCHANGED <<clock, optVars, last>>

\* the open of fs::write fails: the file is not touched, the command returns Err
WriteOpenFails ==
    /\ th[1].pc = "idle"
    /\ \E cmd \in Commands, repo_path \in Paths :
         /\ Whole(cmd, file, repo_path, clock).ok
         /\ last' = [ op |-> cmd, arg |-> repo_path, ok |-> FALSE, ret |-> WriteError,
                      pre |-> file, now |-> clock, prev |-> NoPrev ]
    /\ UNCHANGED <<file, clock, optVars, concVars>>

\* write_all of fs::write succeeds: the command returns Ok
WriteAll ==
    /\ th[1].pc = "writing"
    /\ file' = th[1].content
    /\ last' = Saved(TRUE, None)
    /\ th' = [th EXCEPT ![1] = Idle]
    /\ UNCHANGED <<clock, optVars>>

\* write_all returns an error, or the process stops before it has written
WriteFails ==
    /\ th[1].pc = "writing"
    /\ last' = Saved(FALSE, WriteError)
    /\ th' = [th EXCEPT ![1] = Idle]
    /\ UNCHANGED <<file, clock, optVars>>

NextWrite ==
    \/ Tick
    \/ CommandReturnsErr
    \/ WriteOpen
    \/ WriteOpenFails
    \/ WriteAll
    \/ WriteFails

SpecWrite == InitConcurrent /\ [][NextWrite]_vars

\* C19, as claimed: while a command saves, the file holds the whole document
\* of before the command or the whole document of after it, and when the save
\* has failed or was interrupted the file is the document of before.
C19_NoPartialCommit ==
    /\ th[1].pc = "writing" => file \in {th[1].pre, th[1].content}
    /\ (last.ret = WriteError /\ ~last.ok) => file = last.pre

\* C20, as claimed: a load_cache of the file a store operation has saved
\* returns a document that is equal in every field to the one saved (it
\* serialises to the same file) and writes nothing, whatever color the
\* collections were created with.
C20_RoundTrip ==
    (file # None /\ last.op # "none") =>
        LET l == load_cache(file, clock) IN
        /\ l.res # None
        /\ save_cache(l.res[1]) = file
        /\ l.file = file

----------------------------------------------------------------------------
(* validate_repositories and cleanup_invalid_repositories on the cache     *)
(* files a machine can hold: written by this or an earlier version.        *)

ValidateRepositories ==
    \E has_git \in SUBSET Paths :
        Step("validate_repositories", has_git,
             validate_repositories(file, has_git, clock))

NextValidate ==
    \/ Tick
    \/ ValidateRepositories
    \/ CleanupInvalidRepositories
    \/ ToggleRepositoryPin
    \/ RefreshRepository

SpecValidate == InitMigration /\ [][NextValidate]_vars

\* C21, as claimed: validate_repositories leaves the file as it was, whatever
\* document it holds, and the two sets it returns partition the stored paths
\* by the existence of the .git marker.
C21_Original ==
    last.op = "validate_repositories" =>
        /\ file = last.pre
        /\ last.ok =>
              /\ DOMAIN last.ret[1] = (DOMAIN Stored(file)) \cap last.arg
              /\ last.ret[2] = (DOMAIN Stored(file)) \ last.arg

\* C21, amended: validate_repositories writes nothing of its own.  The file
\* after the call is the file its load_cache leaves: unchanged when the
\* document is in the current format and no collection has an empty color (or
\* when no format reads it and the call fails), and else the migrated or
\* repaired document.  The two sets it returns partition the paths of the
\* loaded document by the existence of the .git marker, and each valid record
\* is the stored one with is_valid set.
C21_ValidateReadsThroughLoad ==
    last.op = "validate_repositories" =>
        /\ file = load_cache(last.pre, last.now).file
        /\ (Parses(last.pre) /\ ~EmptyColor(last.pre)) => file = last.pre
        /\ ~last.ok => file = last.pre
        /\ last.ok =>
              /\ DOMAIN last.ret[1] = (DOMAIN Stored(file)) \cap last.arg
              /\ last.ret[2] = (DOMAIN Stored(file)) \ last.arg
              /\ \A p \in DOMAIN last.ret[1] :
                    last.ret[1][p] = [Stored(file)[p] EXCEPT !.is_valid = TRUE]

\* a validate_repositories of an old-format file with one repository whose
\* marker is gone: the call has rewritten the file
C21_Witness ==
    /\ last.op = "validate_repositories" /\ last.ok
    /\ ~Parses(last.pre)
    /\ file # last.pre
    /\ last.ret[2] = {P1}

\* the repositories an operation works on: those of the document its
\* load_cache returns for the file it found
LoadedBefore == Stored(load_cache(last.pre, last.now).file)

Cleaned == last.op = "cleanup_invalid_repositories" /\ last.ok

\* C22, as claimed: cleanup_invalid_repositories returns the number n of stored
\* records whose .git marker is missing; afterwards repositories holds exactly
\* the records that were valid, each unchanged, so the count drops by n; when
\* n = 0 the document is not rewritten.
C22_Original ==
    Cleaned =>
        /\ last.ret[1] = Cardinality((DOMAIN LoadedBefore) \ last.arg)
        /\ DOMAIN Stored(file) = (DOMAIN LoadedBefore) \cap last.arg
        /\ \A p \in DOMAIN Stored(file) : Stored(file)[p] = LoadedBefore[p]
        /\ Cardinality(DOMAIN Stored(file)) = Cardinality(DOMAIN LoadedBefore) - last.ret[1]
        /\ last.ret[1] = 0 => file = last.pre

\* C22, amended: the count, the kept records and the drop are as claimed, for
\* the document load_cache returns.  When n = 0 cleanup saves nothing of its
\* own: the file is the one its load_cache leaves, which is the file of before
\* when that is in the current format with no empty collection color, and
\* else the migrated or repaired document.
C22_CleanupKeepsValid ==
    Cleaned =>
        /\ last.ret[1] = Cardinality((DOMAIN LoadedBefore) \ last.arg)
        /\ DOMAIN Stored(file) = (DOMAIN LoadedBefore) \cap last.arg
        /\ \A p \in DOMAIN Stored(file) : Stored(file)[p] = LoadedBefore[p]
        /\ Cardinality(DOMAIN Stored(file)) = Cardinality(DOMAIN LoadedBefore) - last.ret[1]
        /\ last.ret[1] = 0 => file = load_cache(last.pre, last.now).file
        /\ (last.ret[1] = 0 /\ Parses(last.pre) /\ ~EmptyColor(last.pre)) => file = last.pre

\* a cleanup that removed one of two records and kept a pinned one
C22_Witness ==
    /\ Cleaned
    /\ last.ret[1] = 1
    /\ Cardinality(DOMAIN Stored(last.pre)) = 2
    /\ \E p \in DOMAIN Stored(file) : Stored(file)[p].is_pinned

----------------------------------------------------------------------------
(* The scan roots: registered, scanned and removed.                        *)

AddScanPathOfRoots ==
    \E path \in Roots : Step("add_scan_path", path, add_scan_path(file, path, clock))

RemoveScanPath ==
    \E path \in Roots : Step("remove_scan_path", path, remove_scan_path(file, path, clock))

UpdateScanPathLastScanned ==
    \E path \in Roots :
        Step("update_scan_path_last_scanned", path,
             update_scan_path_last_scanned(file, path, clock))

NextRoots ==
    \/ Tick
    \/ AddScanPathOfRoots
    \/ RemoveScanPath
    \/ UpdateScanPathLastScanned
    \/ ScanCustomPaths

SpecRoots == Init /\ [][NextRoots]_vars

\* C23, as claimed: after scan_custom_paths with a registered root R, the
\* repository_count stored for R is the number of stored repositories whose
\* path lies under R.
C23_CountAfterScan ==
    (last.op = "scan_custom_paths" /\ last.ok) =>
        \A R \in last.arg \cap DOMAIN StoredScanPaths(file) :
            StoredScanPaths(file)[R].repository_count =
                Cardinality({p \in DOMAIN Stored(file) : IsUnder(p, R)})

\* C24, as claimed: remove_scan_path and update_scan_path_last_scanned with a
\* path that is not a key of scan_paths fail and leave the file, last_updated
\* included, as it was.
C24_UnknownRootFails ==
    (/\ last.op \in {"remove_scan_path", "update_scan_path_last_scanned"}
     /\ last.arg \notin DOMAIN StoredScanPaths(last.pre)) =>
        (~last.ok /\ file = last.pre)

----------------------------------------------------------------------------
(* The searches of a store: records of two sizes are added to and removed  *)
(* from the store with its derived structures, and searched.               *)

\* add_repository_optimized with what an analysis of either working tree returns
AddAnalyzedOptimized ==
    \E repo_path \in Paths, variant \in {1, 2} :
        /\ TrieCount(path_trie, repo_path) < MaxIndexed
        /\ ListedCount(repo_index.by_size_range, repo_path) < MaxIndexed
        /\ ListedCount(repo_index.by_commit_count_range, repo_path) < MaxIndexed
        /\ \A t \in DOMAIN repo_index.by_file_type :
              Occurrences(repo_index.by_file_type[t], repo_path) < MaxIndexed
        /\ StepOpt("add_repository_optimized", <<repo_path, variant>>,
                   add_repository_optimized(file, TheStore,
                       analyze_repository(repo_path, Repo(variant), clock)[1], clock))

\* the arguments of a search: each given or not
SearchNames == {None, Some(<<"p">>), Some(<<"P", "q">>)}
SearchMin == {None, Some(0), Some(100)}
SearchMax == {None, Some(49), Some(199)}
SearchTypes == {None, Some("js")}

AdvancedSearch ==
    \E name_prefix \in SearchNames, min_size_mb \in SearchMin,
       max_size_mb \in SearchMax, file_type \in SearchTypes :
        StepOpt("advanced_search", <<name_prefix, min_size_mb, max_size_mb, file_type>>,
                advanced_search(file, TheStore, name_prefix, min_size_mb, max_size_mb,
                                file_type, clock))

NextSearch ==
    \/ AddAnalyzedOptimized
    \/ RemoveRepositoryOptimized
    \/ AdvancedSearch

SpecSearch == Init /\ [][NextSearch]_vars

\* the paths the size index lists in the ranges from the one of min_mb, when
\* given, to the one of max_mb, when given
SizeCandidates(index, min_mb, max_mb) ==
    Elements(ConcatAt(index.by_size_range,
                 SetToSeq({range \in DOMAIN index.by_size_range :
                              /\ min_mb # None => SizeRange(min_mb[1]) <= range
                              /\ max_mb # None => range <= SizeRange(max_mb[1])})))

\* C25, as claimed: advanced_search returns the records whose path is in the
\* candidate set of every argument that was given (the name index for
\* name_prefix, the size ranges from min_size on and up to max_size, the
\* file-type index for file_type), for every combination of given and omitted
\* arguments; with none given it returns every record.
C25_SearchIntersects ==
    (last.op = "advanced_search" /\ last.ok) =>
        LET name_prefix == last.arg[1]
            min_size_mb == last.arg[2]
            max_size_mb == last.arg[3]
            file_type == last.arg[4]
            Candidate(p) ==
                /\ name_prefix # None =>
                      p \in Elements(find_repositories_by_name_prefix(repo_index,
                                                                      name_prefix[1]))
                /\ (min_size_mb # None \/ max_size_mb # None) =>
                      p \in SizeCandidates(repo_index, min_size_mb, max_size_mb)
                /\ file_type # None =>
                      p \in Elements(find_repositories_by_file_type(repo_index,
                                                                    file_type[1]))
        IN last.ret[1] = {Stored(file)[p] : p \in {q \in DOMAIN Stored(file) : Candidate(q)}}

----------------------------------------------------------------------------
(* The searches of the repository index alone: records of distinct paths   *)
(* are inserted and the index is searched.  `last` records the call, what  *)
(* it returned and, in `live`, the records inserted so far.                *)

\* three records of distinct paths: two names that differ only in case, and
\* sizes in three ranges
LookupRecords ==
    { IndexRecord(<<"p">>, <<"/", "u", "/", "p">>, 10, [t \in {"rs"} |-> 1]),
      IndexRecord(<<"P">>, <<"/", "u", "/", "p", "q">>, 150, [t \in {"rs"} |-> 1]),
      IndexRecord(<<"p", "q">>, <<"/", "s", "/", "p", "q">>, 60, EmptyMap) }

LookupPrefixes == { <<>>, <<"p">>, <<"P", "q">>, <<"q">> }
LookupSizes == { -1, 0, 60, 100, 200 }

NoLookup == [op |-> "none", arg |-> None, ret |-> <<>>, live |-> {}]

InitLookup ==
    /\ file = None
    /\ clock = 1
    /\ path_trie = PathTrieNew
    /\ lru_cache = <<>>
    /\ repo_index = RepositoryIndexNew
    /\ th = [t \in Threads |-> Idle]
    /\ last = NoLookup

LookupInsert ==
    \E repo \in LookupRecords :
        /\ ListedCount(repo_index.by_size_range, repo.path) < MaxIndexed
        /\ repo_index' = IndexInsert(repo_index, repo)
        /\ last' = [ op |-> "insert_repository", arg |-> repo, ret |-> <<>>,
                     live |-> last.live \cup {repo} ]
        /\ UNCHANGED <<file, clock, path_trie, lru_cache, concVars>>

LookupByNamePrefix ==
    \E prefix \in LookupPrefixes :
        /\ last' = [ op |-> "find_repositories_by_name_prefix", arg |-> prefix,
                     ret |-> find_repositories_by_name_prefix(repo_index, prefix),
                     live |-> last.live ]
        /\ UNCHANGED <<file, clock, optVars, concVars>>

LookupBySizeRange ==
    \E min_mb \in LookupSizes, max_mb \in LookupSizes :
        /\ last' = [ op |-> "find_repositories_by_size_range", arg |-> <<min_mb, max_mb>>,
                     ret |-> find_repositories_by_size_range(repo_index, min_mb, max_mb),
                     live |-> last.live ]
        /\ UNCHANGED <<file, clock, optVars, concVars>>

NextLookup == LookupInsert \/ LookupByNamePrefix \/ LookupBySizeRange

SpecLookup == InitLookup /\ [][NextLookup]_vars

\* C26, as claimed: find_repositories_by_name_prefix(prefix) returns the path
\* of every inserted record whose lower-cased name starts with the lower-cased
\* prefix, and no other path.
C26_NamePrefixComplete ==
    last.op = "find_repositories_by_name_prefix" =>
        Elements(last.ret) =
            {r.path : r \in {x \in last.live : StartsWith(ToLower(x.name), ToLower(last.arg))}}

\* the 50 MB range a size falls in
Floor50(size_mb) == IF size_mb < 0 THEN 0 ELSE size_mb - (size_mb % 50)

\* C27: find_repositories_by_size_range(min, max) returns exactly the paths of
\* the inserted records whose 50 MB range lies between the range of min and
\* the range of max, both included; so every inserted record with
\* min <= size_mb <= max is returned, and nothing is returned when the range
\* of min is above the range of max.
C27_SizeRangeBuckets ==
    last.op = "find_repositories_by_size_range" =>
        LET min_mb == last.arg[1]
            max_mb == last.arg[2]
        IN /\ Elements(last.ret) =
                 {r.path : r \in {x \in last.live :
                                     /\ Floor50(min_mb) <= Floor50(x.size_mb)
                                     /\ Floor50(x.size_mb) <= Floor50(max_mb)}}
           /\ \A r \in last.live :
                 (min_mb <= r.size_mb /\ r.size_mb <= max_mb) => Contains(last.ret, r.path)
           /\ Floor50(min_mb) > Floor50(max_mb) => last.ret = <<>>

\* the search 100..200 finds the record of 150 MB and not the one of 60 MB
C27_Witness ==
    /\ last.op = "find_repositories_by_size_range"
    /\ last.arg = <<100, 200>>
    /\ Cardinality(last.live) = 3
    /\ Elements(last.ret) = { <<"/", "u", "/", "p", "q">> }

\* how often the lists of a map hold a path under the key, 0 without the key
CountAt(m, key, path) == IF key \in DOMAIN m THEN Occurrences(m[key], path) ELSE 0

\* 1 when the condition holds, else 0
Once(cond) == IF cond THEN 1 ELSE 0

\* C28, as claimed: after add_repository_optimized and
\* remove_repository_optimized the trie and the indices list what
\* rebuild_optimizations would list for the document on disk: each stored path
\* once in the trie, once in the size range and the commit range of its
\* record and in no other, under its lower-cased name, and once under each of
\* its file extensions and no other; a path that is not stored nowhere.
C28_IndicesMatchStore ==
    (/\ last.op \in {"add_repository_optimized", "remove_repository_optimized"}
     /\ last.ok) =>
        \A p \in Paths :
            LET stored == p \in DOMAIN Stored(file)
                repo == Stored(file)[p]
            IN /\ TrieCount(path_trie, p) = Once(stored)
               /\ \A range \in DOMAIN repo_index.by_size_range :
                     CountAt(repo_index.by_size_range, range, p) =
                         Once(stored /\ SizeRange(repo.size_mb) = range)
               /\ \A range \in DOMAIN repo_index.by_commit_count_range :
                     CountAt(repo_index.by_commit_count_range, range, p) =
                         Once(stored /\ CommitRange(repo.commit_count) = range)
               /\ \A t \in DOMAIN repo_index.by_file_type :
                     CountAt(repo_index.by_file_type, t, p) =
                         Once(stored /\ t \in DOMAIN repo.file_types)
               /\ stored =>
                     /\ CountAt(repo_index.by_size_range, SizeRange(repo.size_mb), p) = 1
                     /\ ToLower(repo.name) \in DOMAIN repo_index.by_name
                     /\ repo_index.by_name[ToLower(repo.name)] = p
               /\ ~stored => \A name \in DOMAIN repo_index.by_name :
                                repo_index.by_name[name] # p

----------------------------------------------------------------------------
(* A scan in its steps, next to the pin command.  The scan command runs on *)
(* thread 1: it loads the existing cache, walks the disk, and then merges  *)
(* and persists what it found.  toggle_repository_pin is another command   *)
(* with a scanner of its own; nothing makes it wait for the scan.          *)

\* "Load existing cache to preserve pin states"; `user` collects the pin state
\* the pin command leaves for a path while the scan is under way
ScanLoadsExisting ==
    /\ th[1].pc = "idle"
    /\ LET l == load_cache(file, clock) IN
       /\ file' = l.file
       /\ th' = [th EXCEPT ![1] = [ pc |-> "scanning",
                                    existing_cache |-> UnwrapOrDefault(l, clock),
                                    user |-> EmptyMap ]]
    /\ UNCHANGED <<clock, optVars, last>>

\* toggle_repository_pin while the scan walks the disk
ToggleWhileScanning ==
    /\ th[1].pc = "scanning"
    /\ \E repo_path \in Paths :
         LET r == toggle_repository_pin(file, repo_path, clock) IN
         /\ r.ok
         /\ file' = r.file
         /\ last' = Done("toggle_repository_pin", repo_path, r)
         /\ th' = [th EXCEPT ![1].user = Put(@, repo_path, PinOf(r.ret[1]))]
    /\ UNCHANGED <<clock, optVars>>

\* the rest of scan_disk_with_cache: the merge with the existing cache and the
\* add_repository of every repository found
ScanPersists ==
    /\ th[1].pc = "scanning"
    /\ \E fsv \in FsViews :
         LET found == UNION {DOMAIN scan_directory(root, fsv, clock) : root \in DiskRoots}
             merged == [p \in found |->
                          PreservePin(analyze_repository(p, fsv[p], clock)[1],
                                      th[1].existing_cache)]
             saved == AddEach(file, [i \in 1..Cardinality(found) |->
                                        merged[SetToSeq(found)[i]]], TRUE, clock)
         IN /\ file' = saved.file
            /\ last' = Done("scan_disk_with_cache", [found |-> found, user |-> th[1].user],
                            [ok |-> saved.ok, ret |-> None])
    /\ th' = [th EXCEPT ![1] = Idle]
    /\ UNCHANGED <<clock, optVars>>

NextScanning ==
    \/ Tick
    \/ ScanLoadsExisting
    \/ ToggleWhileScanning
    \/ ScanPersists
    \/ ToggleRepositoryPin

SpecScanning == InitConcurrent /\ [][NextScanning]_vars

\* C29, as claimed: when the user has toggled the pin of P after the scan
\* loaded the existing cache and before the scan persisted P, the record the
\* scan persists for P has the pin state the user set.
C29_ScanKeepsUserPin ==
    (last.op = "scan_disk_with_cache" /\ last.ok) =>
        \A p \in last.arg.found \cap DOMAIN last.arg.user :
            PinOf(Stored(file)[p]) = last.arg.user[p]

----------------------------------------------------------------------------
(* The recency cache on a miss.  The record of a get_repository_fast call  *)
(* also keeps the recency cache the call started with.                     *)

GetRepositoryFastFrom ==
    \E repo_path \in Paths :
        LET r == get_repository_fast(file, TheStore, repo_path, clock) IN
        /\ file' = r.file
        /\ lru_cache' = r.store.lru_cache
        /\ last' = [ op |-> "get_repository_fast", arg |-> repo_path, ok |-> r.ok,
                     ret |-> r.ret, pre |-> file, now |-> clock, lru |-> lru_cache ]
        /\ UNCHANGED <<clock, path_trie, repo_index, concVars>>

NextRecency ==
    \/ Tick
    \/ RemoveRepositoryOptimized
    \/ RefreshRepository
    \/ RemoveRepositoryFromCache
    \/ GetRepositoryFastFrom

SpecRecency == Init /\ [][NextRecency]_vars

\* the last call was a get_repository_fast(P) that found no entry for P in the
\* recency cache
Missed == last.op = "get_repository_fast" /\ last.ok /\ ~LruHas(last.lru, last.arg)

\* C30: when get_repository_fast(P) finds no entry for P in the recency cache
\* and the file holds a record for P, it returns that record and afterwards the
\* cache holds it under P in the most recently used position, before the
\* entries it held; when the file has no P it returns none and leaves the
\* cache as it was.
C30_MissFallsBack ==
    Missed =>
        IF last.arg \in DOMAIN Stored(last.pre)
        THEN /\ last.ret = Some(Stored(last.pre)[last.arg])
             /\ lru_cache # <<>>
             /\ lru_cache[1] = [key |-> last.arg, value |-> Stored(last.pre)[last.arg]]
             /\ Len(lru_cache) = IF Len(last.lru) < LruCapacity
                                 THEN Len(last.lru) + 1 ELSE LruCapacity
             /\ \A i \in 2..Len(lru_cache) : lru_cache[i] = last.lru[i - 1]
        ELSE /\ last.ret = None
             /\ lru_cache = last.lru

\* a miss for a stored path while the cache held another path
C30_Witness ==
    /\ Missed
    /\ last.arg \in DOMAIN Stored(last.pre)
    /\ last.lru # <<>>
    /\ last.ret # None

----------------------------------------------------------------------------
(* The recency cache alone: get, put and pop on a cache of a small         *)
(* capacity.  The record of a call keeps the cache it started with and the *)
(* keys in the order of their last use, before and after the call.         *)

\* the capacity of the cache under test
MaxCached == 2

LruKeys ==
    { <<"/", "u", "/", "p">>, <<"/", "u", "/", "p", "q">>,
      <<"/", "s", "/", "p">>, <<"/", "s", "/", "p", "q">> }

\* two records of a path
LruValues(key) == { [path |-> key, is_pinned |-> b] : b \in BOOLEAN }

\* a key becomes the one used last
Used(uses, key) ==
    LET Other(k) == k # key IN <<key>> \o SelectSeq(uses, Other)

NoLruOp == [op |-> "none", arg |-> None, ret |-> None, lru |-> <<>>, was |-> <<>>, uses |-> <<>>]

InitLru ==
    /\ file = None
    /\ clock = 1
    /\ path_trie = PathTrieNew
    /\ lru_cache = <<>>
    /\ repo_index = RepositoryIndexNew
    /\ th = [t \in Threads |-> Idle]
    /\ last = NoLruOp

LruCacheGet ==
    \E key \in LruKeys :
        /\ lru_cache' = LruGet(lru_cache, key)
        /\ last' = [ op |-> "get", arg |-> key,
                     ret |-> IF LruHas(lru_cache, key)
                             THEN Some(LruValue(lru_cache, key)) ELSE None,
                     lru |-> lru_cache, was |-> last.uses,
                     uses |-> IF LruHas(lru_cache, key)
                              THEN Used(last.uses, key) ELSE last.uses ]
        /\ UNCHANGED <<file, clock, path_trie, repo_index, concVars>>

LruCachePut ==
    \E key \in LruKeys : \E value \in LruValues(key) :
        /\ lru_cache' = LruPutIn(lru_cache, key, value, create_repository_cache(MaxCached))
        /\ last' = [ op |-> "put", arg |-> key, ret |-> Some(value),
                     lru |-> lru_cache, was |-> last.uses,
                     uses |-> Used(last.uses, key) ]
        /\ UNCHANGED <<file, clock, path_trie, repo_index, concVars>>

LruCachePop ==
    \E key \in LruKeys :
        /\ lru_cache' = LruPop(lru_cache, key)
        /\ last' = [ op |-> "pop", arg |-> key, ret |-> None,
                     lru |-> lru_cache, was |-> last.uses,
                     uses |-> LET Other(k) == k # key IN SelectSeq(last.uses, Other) ]
        /\ UNCHANGED <<file, clock, path_trie, repo_index, concVars>>

NextLru == LruCacheGet \/ LruCachePut \/ LruCachePop

SpecLru == InitLru /\ [][NextLru]_vars

LruKeysOf(lru) == { lru[i].key : i \in 1..Len(lru) }

\* where a key stands in the order of last use (1 is the key used last)
UsedAt(uses, key) == CHOOSE i \in 1..Len(uses) : uses[i] = key

\* the key of the cache whose last use is the oldest
LeastRecentlyUsed(lru, uses) ==
    CHOOSE k \in LruKeysOf(lru) :
        \A o \in LruKeysOf(lru) : UsedAt(uses, o) <= UsedAt(uses, k)

PutOfNewKeyWhenFull ==
    /\ last.op = "put"
    /\ last.arg \notin LruKeysOf(last.lru)
    /\ Len(last.lru) = MaxCached

\* C31: the cache never holds more entries than its capacity and holds a key
\* once; a put of a new key into a full cache drops exactly the entry whose
\* last get or put is the oldest and keeps the others with their values; a put
\* of a key the cache holds replaces the value and drops nothing.
C31_LruWithinCapacity ==
    /\ Len(lru_cache) <= MaxCached
    /\ \A i, j \in 1..Len(lru_cache) : lru_cache[i].key = lru_cache[j].key => i = j
    /\ PutOfNewKeyWhenFull =>
          /\ LruKeysOf(lru_cache) =
                (LruKeysOf(last.lru) \ {LeastRecentlyUsed(last.lru, last.was)}) \cup {last.arg}
          /\ LruValue(lru_cache, last.arg) = last.ret[1]
          /\ \A k \in LruKeysOf(lru_cache) \ {last.arg} :
                LruValue(lru_cache, k) = LruValue(last.lru, k)
    /\ (last.op = "put" /\ last.arg \in LruKeysOf(last.lru)) =>
          /\ LruKeysOf(lru_cache) = LruKeysOf(last.lru)
          /\ LruValue(lru_cache, last.arg) = last.ret[1]
          /\ \A k \in LruKeysOf(lru_cache) \ {last.arg} :
                LruValue(lru_cache, k) = LruValue(last.lru, k)

\* a put of a new key into a full cache: the entry used longest ago is gone,
\* another entry stays
C31_Witness ==
    /\ PutOfNewKeyWhenFull
    /\ Len(last.lru) >= 2
    /\ LeastRecentlyUsed(last.lru, last.was) \notin LruKeysOf(lru_cache)
    /\ \E k \in LruKeysOf(last.lru) : k \in LruKeysOf(lru_cache)

----------------------------------------------------------------------------
(* Claims on SpecStore: the colors of the collections.                     *)

\* C32, as claimed: in every reachable state every collection of the file has
\* a non-empty color; a load that succeeds returns a document without an empty
\* color and leaves a file without one.
C32_ColorsNonEmpty ==
    /\ ~EmptyColor(file)
    /\ LET l == load_cache(file, clock) IN
       l.res # None =>
           /\ \A c \in DOMAIN l.res[1].collections : l.res[1].collections[c].color # ""
           /\ ~EmptyColor(l.file)

----------------------------------------------------------------------------
(* load_cache with the outcomes of its reads and writes.  The file may be  *)
(* absent; fs::read_to_string may fail; the save of a repaired or migrated *)
(* document is fs::write, which may fail at its open or after it.          *)

ReadOutcomes == {"read", "read_fails"}
WriteOutcomes == {"written", "open_fails", "write_fails"}

\* a load_cache that creates the file it does not find
load_cache_io_mut_creates(f, now, read, write) ==
    IF f = None
    THEN [res |-> Some(RepositoryCacheDefault(now)),
          file |-> save_cache(RepositoryCacheDefault(now))]
    ELSE IF read = "read_fails" THEN [res |-> None, file |-> f]
    ELSE LET l == load_cache(f, now) IN
         IF l.file = f \/ write = "written" THEN l
         ELSE IF write = "open_fails" THEN [res |-> None, file |-> f]
         ELSE [res |-> None, file |-> Some(Truncated)]

\* DataStore::load_cache, given how its read and its save end
load_cache_io(f, now, read, write) ==
    IF f = None THEN [res |-> Some(RepositoryCacheDefault(now)), file |-> f]
    ELSE IF read = "read_fails" THEN [res |-> None, file |-> f]
    ELSE LET l == load_cache(f, now) IN
         IF l.file = f \/ write = "written" THEN l
         ELSE IF write = "open_fails" THEN [res |-> None, file |-> f]
         ELSE [res |-> None, file |-> Some(Truncated)]

InitLoad ==
    /\ file \in {None} \cup {Some(j) : j \in DiskDocs}
    /\ clock = 1
    /\ path_trie = PathTrieNew
    /\ lru_cache = <<>>
    /\ repo_index = RepositoryIndexNew
    /\ th = [t \in Threads |-> Idle]
    /\ last = NoOp

LoadCacheIo ==
    \E read \in ReadOutcomes, write \in WriteOutcomes :
        LET l == load_cache_io(file, clock, read, write) IN
        /\ file' = l.file
        /\ last' = Done("load_cache", <<read, write>>, Result(l.file, l.res # None, l.res))
        /\ UNCHANGED <<clock, optVars, concVars>>

NextLoad == Tick \/ LoadCacheIo

SpecLoad == InitLoad /\ [][NextLoad]_vars

\* the text of a file parses in no format
ParsesInNoFormat(f) == f # None /\ FromJson(f[1]) = None /\ OldFromJson(f[1]) = None

\* load_cache had a document to write back: the file parsed in the old format
\* only, or in the current one with an empty color
WroteBack(f, now) == f # None /\ load_cache(f, now).file # f

Loaded == last.op = "load_cache"

\* C33, as claimed: load_cache fails only when the text of the file parses in
\* no format, and then the file keeps its content; without a file it returns
\* the empty document of the current version and creates no file.
C33_Original ==
    Loaded =>
        /\ ~last.ok <=> ParsesInNoFormat(last.pre)
        /\ ~last.ok => file = last.pre
        /\ last.pre = None =>
              last.ret = Some(RepositoryCacheDefault(last.now)) /\ file = None

\* C33, amended: load_cache fails when the text of the file parses in no
\* format, when the file cannot be read, or when the save of the repaired or
\* migrated document fails, and in no other case.  After a failure the file
\* keeps its content, except when that save failed after its open: then the
\* file is truncated.  Without a file load_cache returns the empty document of
\* the current version and creates no file.
C33_LoadFailures ==
    Loaded =>
        /\ ~last.ok <=>
              /\ last.pre # None
              /\ \/ last.arg[1] = "read_fails"
                 \/ ParsesInNoFormat(last.pre)
                 \/ WroteBack(last.pre, last.now) /\ last.arg[2] # "written"
        /\ ~last.ok =>
              IF /\ last.arg[1] = "read" /\ last.arg[2] = "write_fails"
                 /\ WroteBack(last.pre, last.now)
              THEN file = Some(Truncated)
              ELSE file = last.pre
        /\ last.pre = None =>
              /\ last.ok
              /\ last.ret = Some(RepositoryCacheDefault(last.now))
              /\ last.ret[1].cache_version = CurrentVersion
              /\ last.ret[1].repositories = EmptyMap
              /\ file = None

\* a load of a file that parses in no format, and nothing went wrong besides
C33_Witness ==
    /\ Loaded
    /\ ParsesInNoFormat(last.pre)
    /\ last.arg = <<"read", "written">>
    /\ ~last.ok
    /\ file = last.pre

----------------------------------------------------------------------------
(* add_repository on a store that has scan roots and collections.          *)

\* the record handed in is an analysis of the path
AddRepository ==
    \E repo_path \in Paths, variant \in {1, 2} :
        LET repo == analyze_repository(repo_path, Repo(variant), clock)[1]
        IN Step("add_repository", repo, add_repository(file, repo, clock))

NextUpsert ==
    \/ Tick
    \/ AddScanPath
    \/ CreateCollectionOfTwo
    \/ AddRepository

SpecUpsert == InitStore /\ [][NextUpsert]_vars

\* C34, as claimed: add_repository(r) makes repositories[r.path] equal to r,
\* and leaves every other repository, the scan paths and the collections as
\* they were.
C34_UpsertFrame ==
    (last.op = "add_repository" /\ last.ok) =>
        /\ DOMAIN Stored(file) = DOMAIN Stored(last.pre) \cup {last.arg.path}
        /\ Stored(file)[last.arg.path] = last.arg
        /\ \A p \in DOMAIN Stored(last.pre) \ {last.arg.path} :
              Stored(file)[p] = Stored(last.pre)[p]
        /\ StoredScanPaths(file) = StoredScanPaths(last.pre)
        /\ StoredCollections(file) = StoredCollections(last.pre)

----------------------------------------------------------------------------
(* cleanup_invalid_repositories on a store that has scan roots and         *)
(* collections.                                                            *)

NextCleanup ==
    \/ Tick
    \/ AddScanPath
    \/ CreateCollectionOfTwo
    \/ RefreshRepository
    \/ CleanupInvalidRepositories

SpecCleanup == InitStore /\ [][NextCleanup]_vars

\* C36, as claimed: cleanup_invalid_repositories leaves the scan paths and the
\* collections of the file as they were, whether it removed a repository or
\* not.
C36_CleanupFrame ==
    (last.op = "cleanup_invalid_repositories" /\ last.ok) =>
        /\ StoredScanPaths(file) = StoredScanPaths(last.pre)
        /\ StoredCollections(file) = StoredCollections(last.pre)

----------------------------------------------------------------------------
(* The batch operations when the save of a record can fail.  add_repository *)
(* returns Err when the fs::write of its save_cache cannot open the file;   *)
(* the file is then as before.  failing is the set of paths whose save      *)
(* fails that way.                                                          *)

\* the loop of add_repository calls of a batch: [file, ok]
RECURSIVE AddEachIo(_, _, _, _, _)
AddEachIo(f, repos, stop_on_err, failing, now) ==
    IF repos = <<>> THEN [file |-> f, ok |-> TRUE]
    ELSE Then(IF Head(repos).path \in failing THEN Result(f, FALSE, None)
              ELSE add_repository(f, Head(repos), now),
              LAMBDA r : IF ~r.ok /\ stop_on_err THEN [file |-> r.file, ok |-> FALSE]
                         ELSE AddEachIo(r.file, Tail(repos), stop_on_err, failing, now))

\* the records a batch has analysed, with the pin state of the cache loaded
\* before the batch
Merged(found, fsv, existing_cache, now) ==
    [p \in found |-> PreservePin(analyze_repository(p, fsv[p], now)[1], existing_cache)]

\* the record of a batch: what it analysed, which saves failed, what the disk
\* showed
Batch(op, merged, failing, fsv, ok) ==
    [ op |-> op, arg |-> [batch |-> merged, failing |-> failing, fsv |-> fsv],
      ok |-> ok, ret |-> None, pre |-> file, now |-> clock, prev |-> NoPrev ]

\* save the analysed records in the order of the batch
SaveBatch(op, found, fsv, failing, stop_on_err) ==
    LET l == load_cache(file, clock)
        merged == Merged(found, fsv, UnwrapOrDefault(l, clock), clock)
        saved == AddEachIo(l.file, [i \in 1..Cardinality(found) |->
                                       merged[SetToSeq(found)[i]]],
                           stop_on_err, failing, clock)
    IN /\ file' = saved.file
       /\ last' = Batch(op, merged, failing, fsv, saved.ok)
       /\ UNCHANGED <<clock, optVars, concVars>>

\* no save fails, or the save of one path
Failing == {{}} \cup {{p} : p \in Paths}

\* GitScanner::analyze_discovered_repositories: a failed save is logged
AnalyzeDiscoveredSaving ==
    \E repo_paths \in (SUBSET Paths) \ {{}}, fsv \in FsViews, failing \in Failing :
        SaveBatch("analyze_discovered_repositories",
                  {p \in repo_paths : analyze_repository(p, fsv[p], clock) # None},
                  fsv, failing, FALSE)

\* GitScanner::scan_disk_with_cache with force_rescan: a failed save returns
ScanDiskSaving ==
    \E fsv \in FsViews, failing \in Failing :
        SaveBatch("scan_disk_with_cache",
                  UNION {DOMAIN scan_directory(root, fsv, clock) : root \in DiskRoots},
                  fsv, failing, TRUE)

\* GitScanner::refresh_cache: one save for the batch
RefreshCacheOf ==
    \E fsv \in FsViews :
        LET r == refresh_cache(file, fsv, clock) IN
        /\ file' = r.file
        /\ last' = Batch("refresh_cache", EmptyMap, {}, fsv, r.ok)
        /\ UNCHANGED <<clock, optVars, concVars>>

NextBatch ==
    \/ Tick
    \/ AnalyzeDiscoveredSaving
    \/ ScanDiskSaving
    \/ RefreshCacheOf
    \/ ToggleRepositoryPin

SpecBatch == InitConcurrent /\ [][NextBatch]_vars

BatchOps == {"analyze_discovered_repositories", "scan_disk_with_cache"}

\* C35, as claimed: when at most one record of a batch fails, in its analysis
\* or in its save, every other record the batch analysed is in the file
\* afterwards as analysed; and refresh_cache leaves a record whose analysis
\* fails as it was stored.
C35_BatchGoesOn ==
    /\ (last.op \in BatchOps
          /\ Cardinality(last.arg.failing \cap DOMAIN last.arg.batch) <= 1) =>
          \A p \in DOMAIN last.arg.batch \ last.arg.failing :
              /\ p \in DOMAIN Stored(file)
              /\ Stored(file)[p] = last.arg.batch[p]
    /\ (last.op = "refresh_cache" /\ last.ok) =>
          \A p \in DOMAIN Stored(last.pre) :
              last.arg.fsv[p] = Broken =>
                  /\ p \in DOMAIN Stored(file)
                  /\ Stored(file)[p] = Stored(last.pre)[p]

----------------------------------------------------------------------------
(* The searches over the trie and the indices when these hold paths the     *)
(* file no longer has, or records the file has changed: the file is also    *)
(* written by operations that do not touch the derived structures.          *)

FindRepositoriesUnderPathOptimized ==
    \E path \in Roots \cup Paths :
        StepOpt("find_repositories_under_path_optimized", path,
                find_repositories_under_path_optimized(file, TheStore, path, clock))

NextStale ==
    \/ AddRepositoryOptimized
    \/ RemoveRepositoryFromCache
    \/ ToggleRepositoryPin
    \/ AdvancedSearch
    \/ FindRepositoriesUnderPathOptimized

SpecStale == Init /\ [][NextStale]_vars

\* the records the last search returned
Returned ==
    IF last.op = "advanced_search" THEN last.ret[1] ELSE Elements(last.ret[1])

Searched ==
    /\ last.op \in {"advanced_search", "find_repositories_under_path_optimized"}
    /\ last.ok

\* a path the trie and the size index list and the file does not hold
StalePath(p) ==
    /\ p \notin DOMAIN Stored(file)
    /\ TrieCount(path_trie, p) > 0
    /\ IndexCount(repo_index, p) > 0

\* C37: every record find_repositories_under_path_optimized or advanced_search
\* returns has a path that is a key of the repositories of the file, and is
\* the record the file holds for it, whatever paths the trie and the indices
\* list.
C37_SearchReturnsStored ==
    Searched =>
        \A repo \in Returned :
            /\ repo.path \in DOMAIN Stored(file)
            /\ Stored(file)[repo.path] = repo

\* a search that returned a record while the trie and the index list a path
\* the file no longer holds and the recency cache holds a record the file has
\* changed
C37_Witness ==
    /\ Searched
    /\ Returned # {}
    /\ \E p \in Paths : StalePath(p)
    /\ \E repo \in Returned :
          /\ LruHas(lru_cache, repo.path)
          /\ LruValue(lru_cache, repo.path) # repo

----------------------------------------------------------------------------
(* Claims on SpecSearch: what remove_repository_optimized takes out.       *)

\* no index lists the path
Unindexed(index, p) ==
    /\ ListedCount(index.by_size_range, p) = 0
    /\ ListedCount(index.by_commit_count_range, p) = 0
    /\ ListedCount(index.by_file_type, p) = 0
    /\ \A name \in DOMAIN index.by_name : index.by_name[name] # p

\* the trie returns the path, and the indices find it under the name, the
\* ranges and the file extensions of the record
Found(trie, index, repo) ==
    /\ TrieCount(trie, repo.path) > 0
    /\ Contains(find_repositories_by_name_prefix(index, repo.name), repo.path)
    /\ CountAt(index.by_size_range, SizeRange(repo.size_mb), repo.path) > 0
    /\ CountAt(index.by_commit_count_range, CommitRange(repo.commit_count), repo.path) > 0
    /\ \A t \in DOMAIN repo.file_types : CountAt(index.by_file_type, t, repo.path) > 0

\* C38, as claimed: after remove_repository_optimized(P) the file, the recency
\* cache, the trie and every index are without P, and every other stored
\* repository is returned by the trie and found under its name, its size
\* range, its commit range and its file extensions.
C38_RemovesOnlyP ==
    (last.op = "remove_repository_optimized" /\ last.ok) =>
        /\ last.arg \notin DOMAIN Stored(file)
        /\ ~LruHas(lru_cache, last.arg)
        /\ TrieCount(path_trie, last.arg) = 0
        /\ Unindexed(repo_index, last.arg)
        /\ \A q \in DOMAIN Stored(file) : Found(path_trie, repo_index, Stored(file)[q])
        /\ \A q \in DOMAIN Stored(last.pre) \ {last.arg} :
              /\ q \in DOMAIN Stored(file)
              /\ Stored(file)[q] = Stored(last.pre)[q]

====
